---------------------------- MODULE Spec2Model ----------------------------
(***************************************************************************)
(* Egressus Melodiam (software/contrib/egressus_melodiam.py): a clocked    *)
(* CV sequencer / LFO for the EuroPi module.  The model follows the main   *)
(* loop of EgressusMelodiam.main statement block by statement block, with  *)
(* the three interrupt handlers (clock edge, button 1, button 2) run       *)
(* between blocks, at the points of the loop named by IrqPoints.           *)
(*                                                                         *)
(* Units.  Times are milliseconds.  averageMsBetweenClocks is a float in   *)
(* the source (a mean of five integers, or a multiple of 37.5); the model  *)
(* holds it exactly, in tenths of a millisecond.  Voltages are floats      *)
(* rounded to 3 or 4 decimals in the source; the model holds them in       *)
(* units of 0.0001 V.  Arithmetic is exact (no float rounding error).      *)
(***************************************************************************)
EXTENDS Integers, Sequences, FiniteSets, TLC

\* ------------------------------------------------------------------------
\* Program constants
\* ------------------------------------------------------------------------
MIN_CLOCK_TIME_MS == 50
MAX_CLOCK_TIME_MS == 3750
MAX_SAMPLE_RATE == 32
MAX_OUTPUT_DENOMINATOR == 8
MIN_MS_BETWEEN_SAVES == 2000
MAX_STEP_LENGTH == 32
CLOCK_DIFF_BUFFER_LEN == 5
MIN_CLOCK_CHANGE_DETECTION_MS == 100
\* europi_config.MAX_OUTPUT_VOLTAGE (volts)
MAX_OUTPUT_VOLTAGE == 10
\* loadState's default for msBetweenClocks
DEFAULT_MS_BETWEEN_CLOCKS == 976
\* loadState's default for patternLength
DEFAULT_PATTERN_LENGTH == 8
\* len(self.slewShapes)
NUM_SLEW_SHAPES == 8
\* k1.read_position(100)
K1_STEPS == 100
\* round(val, 4): voltages are held in units of 1/VOLT volts
VOLT == 10000
\* averageMsBetweenClocks is held in units of 1/AVG ms
AVG == 10

SLEW_BUFFER_SIZE_IN_SAMPLES ==
    (MAX_CLOCK_TIME_MS * MAX_SAMPLE_RATE * MAX_OUTPUT_DENOMINATOR) \div 1000

MAX_CV_VOLTAGE == MAX_OUTPUT_VOLTAGE * VOLT

\* ------------------------------------------------------------------------
\* Bounds of the model
\* ------------------------------------------------------------------------
\* number of CV outputs modelled (len(cvs) is 6 on the hardware)
NumOutputs == 2
\* clock edges the environment delivers
MaxEdges == 9
\* clock steps handled (external and internal)
MaxClockStep == 9
\* iterations of the main loop
MaxIterations == 10
\* irregular events the environment produces: a long pause, a clock edge off
\* the regular beat, a button release, a knob movement
MaxEvents == 1
\* candidate random patterns
NumPatterns == 2

Outputs == 0 .. (NumOutputs - 1)

\* ------------------------------------------------------------------------
\* Arithmetic helpers
\* ------------------------------------------------------------------------
Min(a, b) == IF a <= b THEN a ELSE b
Max(a, b) == IF a >= b THEN a ELSE b
Abs(a) == IF a >= 0 THEN a ELSE -a

\* Python's int(a / b) for b > 0: truncation toward zero
Trunc(a, b) == IF a >= 0 THEN a \div b ELSE -((-a) \div b)

\* round(a / b) to the nearest unit, b > 0, a >= 0
RoundDiv(a, b) == (2 * a + b) \div (2 * b)

RECURSIVE SumSeq(_)
SumSeq(s) == IF s = <<>> THEN 0 ELSE Head(s) + SumSeq(Tail(s))

\* average(list) = sum / len, in units of 1/AVG ms
average(list) == (AVG * SumSeq(list)) \div Len(list)

\* 1000 * cos((pi/2) * j / n) for 0 <= j <= n, n >= 1, by Bhaskara's rational
\* approximation cos(x) ~ (pi^2 - 4x^2) / (pi^2 + x^2): exact at 0, 60 and 90
\* degrees, within 0.002 elsewhere, and monotone.
QuarterCos(j, n) ==
    LET r == (1000 * j) \div n
    IN  (4 * (1000000 - r * r)) \div ((4000000 + r * r) \div 1000)

\* 1000 * cos((pi/2) * m / n) for m >= 0, by quadrant
Cos1000(m, n) ==
    LET q == (m \div n) % 4
        j == m % n
    IN  CASE q = 0 -> QuarterCos(j, n)
          [] q = 1 -> -QuarterCos(n - j, n)
          [] q = 2 -> -QuarterCos(j, n)
          [] OTHER -> QuarterCos(n - j, n)

\* amplitude + amplitude * cos(2 * pi * freqHz * i / num), where the angle is
\* (pi/2) * m / n; amp2 / ampDen is the amplitude
CosVal(amp, ampDen, m, n) == RoundDiv(amp * (1000 + Cos1000(m, n)), 1000 * ampDen)

\* ------------------------------------------------------------------------
\* Slew shape functions.  Each returns the sequence of values it writes to
\* buffer[0], buffer[1], ... (every shape writes consecutive entries from
\* index 0, counted by c); the rest of the buffer is left as it was.
\* ------------------------------------------------------------------------
\* range(n): the empty range when n <= 0
Range(n) == 1 .. Max(n, 0)

\* range(num / 2) in stepUpStepDown and logUpStepDown: num / 2 is a float and
\* range() of a float raises TypeError, whatever num is
ShapeRaises(mode, plen) == plen = 1 /\ mode \in {0, 6}

stepUpStepDown(start, stop, num) == [i \in Range(num - 1) |-> stop]

linspace(start, stop, num) ==
    LET n == Max(1, num)
    IN  [i \in 1 .. n |-> start + Trunc((stop - start) * (i - 1), n)]

\* linspace with the first value one diff after start
linspaceFromOne(start, stop, num) ==
    LET n == Max(1, num)
    IN  [i \in 1 .. n |-> (stop - start) * i + start * n]

\* linspace without rounding: the values it writes, as numerators over the
\* common denominator max(1, num) (LinspaceDen): diff = (stop - start) / num
\* and val = (diff * i) + start for i in range(num)
linspaceExact(start, stop, num) ==
    LET n == Max(1, num)
    IN  [i \in 1 .. n |-> (stop - start) * (i - 1) + start * n]

\* num = max(1, num), the divisor of diff
LinspaceDen(num) == Max(1, num)

logUpStepDown(start, stop, num) ==
    IF stop >= start
    THEN [i \in Range(num) |-> stop - Trunc(stop - start, Max(i - 1, 1))]
    ELSE [i \in Range(num) |-> stop]

stepUpExpDown(start, stop, num) ==
    IF stop <= start
    THEN [i \in Range(num) |-> stop - Trunc(stop - start, Max(i - 1, 1))]
    ELSE [i \in Range(num) |-> stop]

smooth(start, stop, num) ==
    LET amp2 == Abs(stop - start)
    IN  IF start <= stop
        THEN [i \in Range(num) |-> CosVal(amp2, 2, 2 * ((i - 1) + num), num) + start]
        ELSE [i \in Range(num) |-> CosVal(amp2, 2, 2 * (i - 1), num) + stop]

expUpexpDown(start, stop, num) ==
    LET amplitude == Abs(stop - start)
    IN  IF start <= stop
        THEN [i \in Range(num) |-> CosVal(amplitude, 1, (i - 1) + num * 2, num) + start]
        ELSE [i \in Range(num) |-> CosVal(amplitude, 1, (i - 1) + num, num) + stop]

\* sharkTooth with the rising curve offset by start instead of start - amplitude
sharkToothFromStart(start, stop, num) ==
    LET amplitude == Abs(stop - start)
    IN  IF start <= stop
        THEN [i \in Range(num) |->
                 CosVal(amplitude, 1, (i - 1) + num * 3, num) + start]
        ELSE [i \in Range(num) |-> CosVal(amplitude, 1, (i - 1) + num, num) + stop]

sharkTooth(start, stop, num) ==
    LET amplitude == Abs(stop - start)
    IN  IF start <= stop
        THEN [i \in Range(num) |->
                 CosVal(amplitude, 1, (i - 1) + num * 3, num) + (start - amplitude)]
        ELSE [i \in Range(num) |-> CosVal(amplitude, 1, (i - 1) + num, num) + stop]

sharkToothReverse(start, stop, num) ==
    LET amplitude == Abs(stop - start)
    IN  IF start <= stop
        THEN [i \in Range(num) |-> CosVal(amplitude, 1, (i - 1) + num * 2, num) + start]
        ELSE [i \in Range(num) |->
                 CosVal(amplitude, 1, (i - 1), num) + (stop - amplitude)]

\* self.slewShapes[mode](start, stop, num, buffer), when it does not raise
SlewShape(mode, start, stop, num) ==
    CASE mode = 0 -> stepUpStepDown(start, stop, num)
      [] mode = 1 -> linspace(start, stop, num)
      [] mode = 2 -> smooth(start, stop, num)
      [] mode = 3 -> expUpexpDown(start, stop, num)
      [] mode = 4 -> sharkTooth(start, stop, num)
      [] mode = 5 -> sharkToothReverse(start, stop, num)
      [] mode = 6 -> logUpStepDown(start, stop, num)
      [] OTHER -> stepUpExpDown(start, stop, num)

\* A sample buffer is a list of SLEW_BUFFER_SIZE_IN_SAMPLES entries, all 0
\* after initSlewBuffers.  The model holds the entries up to the highest
\* index ever written; the entries above it are still 0.
BufAt(buffer, k) == IF k < Len(buffer) THEN buffer[k + 1] ELSE 0

\* buffer after buffer[0 .. Len(written)-1] = written
BufWrite(buffer, written) ==
    [i \in 1 .. Max(Len(buffer), Len(written)) |->
        IF i <= Len(written) THEN written[i] ELSE buffer[i]]

\* ------------------------------------------------------------------------
\* Pattern generation
\* ------------------------------------------------------------------------
\* generateRandomPattern(MAX_STEP_LENGTH, 0, MAX_CV_VOLTAGE): one of
\* NumPatterns candidate outcomes of the random draws, each value a multiple
\* of 0.001 V in [0, MAX_CV_VOLTAGE]
generateRandomPattern(k) ==
    [s \in 1 .. MAX_STEP_LENGTH |->
        (((s - 1) * (3 + 2 * k) + 7 * k) % 11) * (MAX_CV_VOLTAGE \div 10)]

\* ------------------------------------------------------------------------
\* Sample-rate calculator
\* ------------------------------------------------------------------------
\* int(min(2 * (MAX_SAMPLE_RATE / division) * (MAX_CLOCK_TIME_MS / average),
\*         MAX_SAMPLE_RATE)) for average > 0 (avg in units of 1/AVG ms)
OptimalSampleRate(division, avg) ==
    Min((2 * MAX_SAMPLE_RATE * MAX_CLOCK_TIME_MS * AVG) \div (division * avg),
        MAX_SAMPLE_RATE)

\* MAX_CLOCK_TIME_MS / self.averageMsBetweenClocks raises ZeroDivisionError
RateRaises(avg) == avg = 0

\* int(1000 / samplesPerSec)
SampleDelay(rate) == 1000 \div rate

\* the target sample count without the min() against the buffer size
TargetSampleNumUnclamped(avg, division, rate, offset) ==
    Trunc(avg * division * rate - 1000 * AVG * offset, 1000 * AVG)

\* min(SLEW_BUFFER_SIZE_IN_SAMPLES,
\*     int((average / 1000) * division * samplesPerSec - offset))
TargetSampleNum(avg, division, rate, offset) ==
    Min(SLEW_BUFFER_SIZE_IN_SAMPLES,
        Trunc(avg * division * rate - 1000 * AVG * offset, 1000 * AVG))

\* ------------------------------------------------------------------------
\* State
\* ------------------------------------------------------------------------
VARIABLES
    \* position of the main loop, and the index of its "for idx" over the outputs
    pc, emitIdx,
    \* the uncaught exception that ended the program ("" while it runs)
    err,
    \* ticks_ms(), din.last_triggered(), and the knob positions
    now, dinLastTriggered, k1Knob, k2Knob,
    \* what cvs[idx].voltage() / cv.off() last set, what save_state_json last
    \* wrote, and whether the last updateScreen call redrew the display
    cvOut, savedState, screenDrawn,
    \* fields of EgressusMelodiam
    newClockToProcess, clockStep, stepPerOutput, nextStepPerOutput,
    screenRefreshNeeded, showNewPatternIndicator, showNewPatternIndicatorClockStep,
    slewArray, lastClockTime, lastSlewVoltageOutputTime, slewGeneratorObjects,
    outputVoltageFlipFlops, selectedOutput,
    lastK1Reading, currentK1Reading, lastK2Reading, currentK2Reading,
    running, bufferUnderrunCounter, bufferOverrunSamples, samplesPerSec,
    msBetweenSamples, unClockedMode, lastSaveState, pendingSaveState,
    previousOutputVoltage, slewBufferSampleNum, slewBufferPosition,
    bufferSampleOffsets, squareOutputs, slewBuffers, inputClockDiffs,
    averageMsBetweenClocks, msBetweenClocks, cvPatternBanks, CvPattern,
    outputSlewModes, outputDivisions, patternLength,
    \* what the environment has done so far
    edges, events, iterations,
    \* history of the run: the time the main loop last handled a clock edge
    \* (edgeAt, -1: none yet); for each slot of inputClockDiffs, the clockStep
    \* at which it was last written (slotAt, -1: by __init__); the number of
    \* clock edges that set newClockToProcess (flagged) and of edges the main
    \* loop handled (handled); for each output, whether the reset block ran
    \* since its last segment (fresh) and the stop value its last segment was
    \* built with (stop, -1: none, a square one, or one built before a reset
    \* or a change of the pattern or of patternLength); whether
    \* screenRefreshNeeded was assigned True since the display was last
    \* redrawn (refreshSet)
    hist,
    \* a direct call of a shape function or of generateNewRandomCVPattern:
    \* its arguments and what it left
    call

envVars == <<now, dinLastTriggered, k1Knob, k2Knob, edges, events, iterations>>

outVars == <<cvOut, savedState, screenDrawn>>

flagVars == <<newClockToProcess, running, unClockedMode, pendingSaveState,
              screenRefreshNeeded, showNewPatternIndicator,
              showNewPatternIndicatorClockStep>>

knobVars == <<lastK1Reading, currentK1Reading, lastK2Reading, currentK2Reading>>

configVars == <<cvPatternBanks, CvPattern, outputSlewModes, outputDivisions,
                patternLength, msBetweenClocks, selectedOutput>>

clockVars == <<clockStep, lastClockTime, inputClockDiffs, averageMsBetweenClocks>>

rateVars == <<samplesPerSec, msBetweenSamples>>

stepVars == <<stepPerOutput, nextStepPerOutput, outputVoltageFlipFlops,
              bufferOverrunSamples, bufferSampleOffsets, slewBufferSampleNum,
              squareOutputs, slewBuffers, slewArray, slewGeneratorObjects,
              slewBufferPosition>>

playVars == <<lastSlewVoltageOutputTime, bufferUnderrunCounter,
              previousOutputVoltage, lastSaveState>>

vars == <<pc, emitIdx, err, envVars, outVars, flagVars, knobVars, configVars,
          clockVars, rateVars, stepVars, playVars, hist, call>>

\* ------------------------------------------------------------------------
\* Initial state: the state after EgressusMelodiam.__init__
\* ------------------------------------------------------------------------
\* loadState's default outputDivisions [1, 2, 4, 1, 2, 4]
DefaultDivision(idx) == IF idx % 3 = 0 THEN 1 ELSE IF idx % 3 = 1 THEN 2 ELSE 4

\* slew modes a saved state can hold: output idx has mode (base + idx) % 8
InitSlewBases == {0, 2, 4, 6}

\* knob positions at power-up: k1.read_position(100) + 1 and
\* k2.read_position(MAX_OUTPUT_DENOMINATOR) + 1
K1Values == {1, 5, K1_STEPS}
K2Values == {1, 3, MAX_OUTPUT_DENOMINATOR}

\* calculateOptimalSampleRate, for every output
CalculatedRates(divisions, avg) ==
    [idx \in Outputs |-> OptimalSampleRate(divisions[idx], avg)]

CalculatedDelays(rates) == [idx \in Outputs |-> SampleDelay(rates[idx])]

\* self.state of saveState
StateToSave ==
    [cvPatternBanks |-> cvPatternBanks, CvPattern |-> CvPattern,
     outputSlewModes |-> outputSlewModes, outputDivisions |-> outputDivisions,
     patternLength |-> patternLength, msBetweenClocks |-> msBetweenClocks,
     unClockedMode |-> unClockedMode]

\* no clock edge handled yet, every window slot as __init__ appended it
NoHistory ==
    [edgeAt |-> -1, slotAt |-> [n \in 1 .. CLOCK_DIFF_BUFFER_LEN |-> -1],
     flagged |-> 0, handled |-> 0,
     fresh |-> [idx \in Outputs |-> FALSE],
     stop |-> [idx \in Outputs |-> -1],
     refreshSet |-> TRUE]

\* no direct call made
NoCall == [fn |-> "none"]

\* The state after __init__ when the saved state holds one of the slew modes
\* of bases and an unclocked-mode flag of modes, and the knobs stand at one
\* of k1s and one of k2s; steps and offsets are the values of clockStep and
\* of every bufferSampleOffsets entry (both 0 after __init__)
InitWith(bases, modes, k1s, k2s, steps, offsets) ==
    /\ pc = "tick" /\ emitIdx = 0 /\ err = ""
    /\ now = 0 /\ dinLastTriggered = 0
    /\ k1Knob \in k1s /\ k2Knob \in k2s
    /\ edges = 0 /\ events = 0 /\ iterations = 0
    /\ hist = NoHistory
    /\ call = NoCall
    /\ cvOut = [idx \in Outputs |-> 0]
    /\ savedState = <<>>
    /\ screenDrawn = FALSE
    /\ newClockToProcess = FALSE
    /\ clockStep \in steps
    /\ stepPerOutput = [idx \in Outputs |-> 0]
    /\ nextStepPerOutput = [idx \in Outputs |-> 0]
    /\ CvPattern = 0
    /\ screenRefreshNeeded = TRUE
    /\ showNewPatternIndicator = FALSE
    /\ showNewPatternIndicatorClockStep = 0
    /\ slewArray = -1
    /\ lastClockTime = 0
    /\ lastSlewVoltageOutputTime = [idx \in Outputs |-> 0]
    /\ slewGeneratorObjects = [idx \in Outputs |-> [src |-> -2, pos |-> 0]]
    /\ outputVoltageFlipFlops = [idx \in Outputs |-> TRUE]
    /\ selectedOutput = 0
    /\ lastK1Reading = 0 /\ currentK1Reading = 0
    /\ lastK2Reading = 0 /\ currentK2Reading = 0
    /\ running = FALSE
    /\ bufferUnderrunCounter = [idx \in Outputs |-> 0]
    /\ bufferOverrunSamples = [idx \in Outputs |-> 0]
    /\ lastSaveState = 0
    /\ pendingSaveState = TRUE
    /\ previousOutputVoltage = [idx \in Outputs |-> 0]
    /\ slewBufferSampleNum = [idx \in Outputs |-> 0]
    /\ slewBufferPosition = [idx \in Outputs |-> 0]
    /\ \E o \in offsets : bufferSampleOffsets = [idx \in Outputs |-> o]
    /\ squareOutputs = [idx \in Outputs |-> 0]
    \* loadState
    /\ cvPatternBanks = [idx \in Outputs |-> <<generateRandomPattern(idx % NumPatterns)>>]
    /\ \E b \in bases :
          outputSlewModes = [idx \in Outputs |-> (b + idx) % NUM_SLEW_SHAPES]
    /\ outputDivisions = [idx \in Outputs |-> DefaultDivision(idx)]
    /\ patternLength = DEFAULT_PATTERN_LENGTH
    /\ msBetweenClocks = DEFAULT_MS_BETWEEN_CLOCKS
    /\ unClockedMode \in modes
    \* initSlewBuffers
    /\ slewBuffers = [idx \in Outputs |-> <<>>]
    /\ inputClockDiffs = [n \in 1 .. CLOCK_DIFF_BUFFER_LEN |-> msBetweenClocks]
    /\ averageMsBetweenClocks = average(inputClockDiffs)
    /\ samplesPerSec = CalculatedRates(outputDivisions, averageMsBetweenClocks)
    /\ msBetweenSamples = CalculatedDelays(samplesPerSec)

Init ==
    \/ InitWith(InitSlewBases, BOOLEAN, {1, 5}, {1}, {0}, {0})
    \/ InitWith({2}, {TRUE}, {1}, {MAX_OUTPUT_DENOMINATOR}, {0}, {0})

\* ------------------------------------------------------------------------
\* Channel step engine: handleClockStep
\* ------------------------------------------------------------------------
\* the per-output state handleClockStep works on
StepState ==
    [flip |-> outputVoltageFlipFlops, over |-> bufferOverrunSamples,
     off |-> bufferSampleOffsets, num |-> slewBufferSampleNum,
     sq |-> squareOutputs, bufs |-> slewBuffers, arr |-> slewArray,
     gens |-> slewGeneratorObjects, pos |-> slewBufferPosition,
     step |-> stepPerOutput, nstep |-> nextStepPerOutput, err |-> ""]

\* self.voltageExtremes[BOOL_DICT[flag]]
VoltageExtreme(flag) == IF flag THEN MAX_CV_VOLTAGE ELSE 0

\* every output stepped on every clock step
AlignedAlways(idx) == TRUE

\* clockStep % outputDivisions[idx] == 0
Aligned(idx) == clockStep % outputDivisions[idx] = 0

\* the running correction of lines 490-501: the overrun of the segment just
\* finished, and the sample offset after it is folded in
OverrunOf(idx, s) == s.pos[idx] - s.num[idx]

\* only a cursor short of the target is folded into the offset, a cursor
\* beyond it is not
OffsetAfterShortfallOnly(idx, s) ==
    IF clockStep > CLOCK_DIFF_BUFFER_LEN /\ ~unClockedMode
    THEN s.off[idx] - Min(0, OverrunOf(idx, s))
    ELSE 0

OffsetAfter(idx, s) ==
    IF clockStep > CLOCK_DIFF_BUFFER_LEN /\ ~unClockedMode
    THEN s.off[idx] - OverrunOf(idx, s)
    ELSE 0

\* (step + 1) % patternLength
NextIndex(step) == (step + 1) % patternLength

\* start and stop value of the segment
SegmentStart(idx, s, flip) ==
    IF patternLength = 1
    THEN VoltageExtreme(flip)
    ELSE cvPatternBanks[idx][CvPattern + 1][s.step[idx] + 1]

SegmentStop(idx, s, flip) ==
    IF patternLength = 1
    THEN VoltageExtreme(~flip)
    ELSE cvPatternBanks[idx][CvPattern + 1][s.nstep[idx] + 1]

\* the body of "for idx in range(len(cvs))" for an aligned output; avg and
\* rates are averageMsBetweenClocks and samplesPerSec as the caller left them
AlignedStep(idx, s, avg, rates) ==
    LET flip == ~s.flip[idx]
        counted == clockStep > CLOCK_DIFF_BUFFER_LEN /\ ~unClockedMode
        over == IF counted THEN OverrunOf(idx, s) ELSE s.over[idx]
        off == OffsetAfter(idx, s)
        num == TargetSampleNum(avg, outputDivisions[idx], rates[idx], off)
        mode == outputSlewModes[idx]
        start == SegmentStart(idx, s, flip)
        stop == SegmentStop(idx, s, flip)
        s1 == [s EXCEPT !.flip[idx] = flip, !.over[idx] = over,
                        !.off[idx] = off, !.num[idx] = num]
        written == SlewShape(mode, start, stop, num)
        s2 == IF mode = 0
              THEN [s1 EXCEPT !.sq[idx] = start]
              ELSE [s1 EXCEPT !.bufs[idx] = BufWrite(s.bufs[idx], written),
                              !.arr = idx]
        step == NextIndex(s.step[idx])
    IN  IF mode # 0 /\ ShapeRaises(mode, patternLength)
        THEN [s1 EXCEPT !.err = "TypeError"]
        ELSE IF mode # 0 /\ Len(written) > SLEW_BUFFER_SIZE_IN_SAMPLES
        THEN [s1 EXCEPT !.err = "IndexError"]
        ELSE [s2 EXCEPT !.gens[idx] = [src |-> s2.arr, pos |-> 0],
                        !.pos[idx] = 0,
                        !.step[idx] = step,
                        !.nstep[idx] = NextIndex(step)]

\* the loop over the outputs, from output idx on; an exception ends it
RECURSIVE StepOutputs(_, _, _, _)
StepOutputs(idx, s, avg, rates) ==
    IF idx = NumOutputs \/ s.err # ""
    THEN s
    ELSE StepOutputs(idx + 1,
                     IF Aligned(idx) THEN AlignedStep(idx, s, avg, rates) ELSE s,
                     avg, rates)

\* handleClockStep as a relation between the state and the next one
handleClockStep(avg, rates) ==
    LET s == StepOutputs(0, StepState, avg, rates)
    IN  /\ outputVoltageFlipFlops' = s.flip
        /\ bufferOverrunSamples' = s.over
        /\ bufferSampleOffsets' = s.off
        /\ slewBufferSampleNum' = s.num
        /\ squareOutputs' = s.sq
        /\ slewBuffers' = s.bufs
        /\ slewArray' = s.arr
        /\ slewGeneratorObjects' = s.gens
        /\ slewBufferPosition' = s.pos
        /\ stepPerOutput' = s.step
        /\ nextStepPerOutput' = s.nstep
        /\ err' = s.err
        /\ showNewPatternIndicator' =
              IF s.err = "" /\ clockStep > showNewPatternIndicatorClockStep + 2
              THEN FALSE
              ELSE showNewPatternIndicator

\* the history after handleClockStep: every aligned output has a segment
\* built after the last reset, with the stop value the shape was called with
SegmentsAfter(h) ==
    [h EXCEPT
       !.fresh = [idx \in Outputs |-> IF Aligned(idx) THEN FALSE ELSE h.fresh[idx]],
       !.stop = [idx \in Outputs |->
                    IF ~Aligned(idx) THEN h.stop[idx]
                    ELSE IF outputSlewModes[idx] = 0 THEN -1
                    ELSE SegmentStop(idx, StepState, ~outputVoltageFlipFlops[idx])]]

\* ------------------------------------------------------------------------
\* The environment: time, the external clock, the knobs
\* ------------------------------------------------------------------------
\* time one iteration of the main loop takes, and a long pause
TickMs == 2 * MIN_CLOCK_TIME_MS
LongTickMs == MAX_CLOCK_TIME_MS + TickMs

\* spacings of the external clock's rising edges off the regular beat
ClockGaps == {0, 2 * TickMs, 4 * TickMs}

\* points of the main loop at which an interrupt handler is run
IrqPoints == {"screen", "clear", "emit", "saved"}

\* Time passes at the top of the main loop
Tick ==
    /\ pc = "tick" /\ err = ""
    /\ iterations < MaxIterations
    /\ \E long \in BOOLEAN :
          /\ long => events < MaxEvents
          /\ now' = now + (IF long THEN LongTickMs ELSE TickMs)
          /\ events' = events + (IF long THEN 1 ELSE 0)
    /\ iterations' = iterations + 1
    /\ pc' = "screen"
    /\ UNCHANGED <<call, hist, emitIdx, err, dinLastTriggered, k1Knob, k2Knob, edges, outVars,
                   flagVars, knobVars, configVars, clockVars, rateVars, stepVars,
                   playVars>>

\* The user turns knob 1 / knob 2 (the loop reads them at its top only)
TurnK1 ==
    /\ pc = "screen" /\ err = "" /\ events < MaxEvents
    /\ \E v \in K1Values \ {k1Knob} : k1Knob' = v
    /\ events' = events + 1
    /\ UNCHANGED <<call, hist, pc, emitIdx, err, now, dinLastTriggered, k2Knob, edges,
                   iterations, outVars, flagVars, knobVars, configVars, clockVars,
                   rateVars, stepVars, playVars>>

TurnK2 ==
    /\ pc = "screen" /\ err = "" /\ events < MaxEvents
    /\ \E v \in K2Values \ {k2Knob} : k2Knob' = v
    /\ events' = events + 1
    /\ UNCHANGED <<call, hist, pc, emitIdx, err, now, dinLastTriggered, k1Knob, edges,
                   iterations, outVars, flagVars, knobVars, configVars, clockVars,
                   rateVars, stepVars, playVars>>

\* a rising edge on the regular beat: at the top of the loop, one TickMs after
\* the previous edge, or the first edge after a silence
OnBeat ==
    /\ pc = "screen"
    /\ now - dinLastTriggered = TickMs \/ now - dinLastTriggered > MAX_CLOCK_TIME_MS

\* ------------------------------------------------------------------------
\* Interrupt handlers
\* ------------------------------------------------------------------------
\* @din.handler clockTrigger: a rising edge on the digital input
clockTrigger ==
    /\ err = "" /\ edges < MaxEdges
    /\ pc \in IrqPoints
    /\ IF OnBeat
       THEN UNCHANGED events
       ELSE /\ events < MaxEvents
            /\ (now - dinLastTriggered) \in (ClockGaps \cup {TickMs})
            /\ events' = events + 1
    /\ edges' = edges + 1
    /\ dinLastTriggered' = now
    /\ running' = TRUE
    /\ newClockToProcess' = IF ~unClockedMode THEN TRUE ELSE newClockToProcess
    /\ hist' = [hist EXCEPT !.flagged = IF ~unClockedMode THEN @ + 1 ELSE @]
    /\ UNCHANGED <<call, pc, emitIdx, err, now, k1Knob, k2Knob, iterations, outVars,
                   unClockedMode, pendingSaveState,
                   screenRefreshNeeded, showNewPatternIndicator,
                   showNewPatternIndicatorClockStep, knobVars, configVars,
                   clockVars, rateVars, stepVars, playVars>>

\* the long press regenerating the pattern of every output
RegeneratedBanksAll(ok, k) ==
    IF ok
    THEN [idx \in Outputs |->
             [cvPatternBanks[idx] EXCEPT ![CvPattern + 1] = generateRandomPattern(k)]]
    ELSE cvPatternBanks

\* generateNewRandomCVPattern(new=False, activePatternOnly=True): the bank
\* after the call; ok is False when an allocation fails (return False)
RegeneratedBanks(ok, k) ==
    IF ok
    THEN [cvPatternBanks EXCEPT ![selectedOutput][CvPattern + 1] = generateRandomPattern(k)]
    ELSE cvPatternBanks

\* @b1.handler_falling b1Pressed; long: released between 2 and 5 s after the press
b1Pressed ==
    /\ err = "" /\ events < MaxEvents
    /\ pc \in IrqPoints
    /\ events' = events + 1
    /\ \E long \in BOOLEAN :
          IF long
          THEN /\ \E ok \in BOOLEAN, k \in 0 .. (NumPatterns - 1) :
                     cvPatternBanks' = RegeneratedBanks(ok, k)
               /\ showNewPatternIndicator' = TRUE
               /\ showNewPatternIndicatorClockStep' = clockStep
               /\ UNCHANGED outputSlewModes
          ELSE /\ outputSlewModes' =
                     [outputSlewModes EXCEPT ![selectedOutput] = (@ + 1) % NUM_SLEW_SHAPES]
               /\ UNCHANGED <<cvPatternBanks, showNewPatternIndicator,
                              showNewPatternIndicatorClockStep>>
    /\ screenRefreshNeeded' = TRUE
    /\ pendingSaveState' = TRUE
    /\ hist' = IF cvPatternBanks' # cvPatternBanks
               THEN [hist EXCEPT !.stop[selectedOutput] = -1, !.refreshSet = TRUE]
               ELSE [hist EXCEPT !.refreshSet = TRUE]
    /\ UNCHANGED <<call, pc, emitIdx, err, now, dinLastTriggered, k1Knob, k2Knob, edges,
                   iterations, outVars, newClockToProcess,
                   running, unClockedMode, knobVars, CvPattern, outputDivisions,
                   patternLength, msBetweenClocks, selectedOutput, clockVars,
                   rateVars, stepVars, playVars>>

\* @b2.handler_falling b2Pressed
b2Pressed ==
    /\ err = "" /\ events < MaxEvents
    /\ pc \in IrqPoints
    /\ events' = events + 1
    /\ \E long \in BOOLEAN :
          IF long
          THEN /\ unClockedMode' = ~unClockedMode
               /\ running' = IF ~unClockedMode THEN TRUE ELSE running
               /\ lastK1Reading' = currentK1Reading
               /\ lastK2Reading' = currentK2Reading
               /\ UNCHANGED selectedOutput
          ELSE /\ selectedOutput' = (selectedOutput + 1) % NumOutputs
               /\ UNCHANGED <<unClockedMode, running, lastK1Reading, lastK2Reading>>
    /\ screenRefreshNeeded' = TRUE
    /\ pendingSaveState' = TRUE
    /\ hist' = [hist EXCEPT !.refreshSet = TRUE]
    /\ UNCHANGED <<call, pc, emitIdx, err, now, dinLastTriggered, k1Knob, k2Knob, edges,
                   iterations, outVars, newClockToProcess,
                   showNewPatternIndicator, showNewPatternIndicatorClockStep,
                   currentK1Reading, currentK2Reading, cvPatternBanks, CvPattern,
                   outputSlewModes, outputDivisions, patternLength, msBetweenClocks,
                   clockVars, rateVars, stepVars, playVars>>

\* ------------------------------------------------------------------------
\* The main loop (EgressusMelodiam.main), one action per statement block
\* ------------------------------------------------------------------------
\* updateScreen: redraws when screenRefreshNeeded is set
updateScreen ==
    /\ pc = "screen" /\ err = ""
    /\ screenDrawn' = screenRefreshNeeded
    /\ hist' = [hist EXCEPT !.refreshSet = IF screenRefreshNeeded THEN FALSE ELSE @]
    /\ pc' = "k1"
    /\ UNCHANGED <<call, emitIdx, err, envVars, cvOut, savedState, flagVars, knobVars,
                   configVars, clockVars, rateVars, stepVars, playVars>>

\* currentK1Reading * (MAX_CLOCK_TIME_MS / MIN_CLOCK_TIME_MS) / 2, in 1/AVG ms
K1ClockTime(reading) == (reading * MAX_CLOCK_TIME_MS * AVG) \div (MIN_CLOCK_TIME_MS * 2)

\* int((MAX_STEP_LENGTH / 100) * (currentK1Reading - 1)) + 1
K1PatternLength(reading) == (MAX_STEP_LENGTH * (reading - 1)) \div 100 + 1

\* abs(currentK1Reading - lastK1Reading) > KNOB_CHANGE_TOLERANCE (0.999), for
\* integer readings
K1Moved(reading) == Abs(reading - lastK1Reading) >= 1

getK1Value ==
    /\ pc = "k1" /\ err = ""
    /\ currentK1Reading' = k1Knob
    /\ IF K1Moved(k1Knob)
       THEN /\ IF unClockedMode
               THEN /\ averageMsBetweenClocks' = K1ClockTime(k1Knob)
                    /\ samplesPerSec' =
                          CalculatedRates(outputDivisions, averageMsBetweenClocks')
                    /\ msBetweenSamples' = CalculatedDelays(samplesPerSec')
                    /\ UNCHANGED patternLength
               ELSE /\ patternLength' = K1PatternLength(k1Knob)
                    /\ UNCHANGED <<averageMsBetweenClocks, rateVars>>
            /\ pendingSaveState' = TRUE
            /\ screenRefreshNeeded' = TRUE
       ELSE UNCHANGED <<averageMsBetweenClocks, rateVars, patternLength,
                        pendingSaveState, screenRefreshNeeded>>
    /\ lastK1Reading' = k1Knob
    /\ hist' = [hist EXCEPT
                   !.stop = IF patternLength' # patternLength
                            THEN [idx \in Outputs |-> -1]
                            ELSE @,
                   !.refreshSet = IF K1Moved(k1Knob) THEN TRUE ELSE @]
    /\ pc' = "k2"
    /\ UNCHANGED <<call, emitIdx, err, envVars, outVars, newClockToProcess, running,
                   unClockedMode, showNewPatternIndicator,
                   showNewPatternIndicatorClockStep, lastK2Reading, currentK2Reading,
                   cvPatternBanks, CvPattern, outputSlewModes, outputDivisions,
                   msBetweenClocks, selectedOutput, clockStep, lastClockTime,
                   inputClockDiffs, stepVars, playVars>>

\* the division read as k2.read_position(MAX_OUTPUT_DENOMINATOR + 1) + 1
DivisionsAfterK2Wide(reading) == [outputDivisions EXCEPT ![selectedOutput] = reading + 1]

\* outputDivisions after getOutputDivision saw the knob moved
DivisionsAfterK2(reading) == [outputDivisions EXCEPT ![selectedOutput] = reading]

\* getOutputDivision without its call of calculateOptimalSampleRate
RatesAfterK2Stale(divisions) == samplesPerSec

\* the sample rates getOutputDivision leaves after a division change
RatesAfterK2(divisions) == CalculatedRates(divisions, averageMsBetweenClocks)

getOutputDivision ==
    /\ pc = "k2" /\ err = ""
    /\ currentK2Reading' = k2Knob
    /\ IF k2Knob # lastK2Reading
       THEN /\ outputDivisions' = DivisionsAfterK2(k2Knob)
            /\ screenRefreshNeeded' = TRUE
            /\ lastK2Reading' = k2Knob
            /\ samplesPerSec' = RatesAfterK2(outputDivisions')
            /\ msBetweenSamples' = CalculatedDelays(samplesPerSec')
            /\ pendingSaveState' = TRUE
       ELSE UNCHANGED <<outputDivisions, screenRefreshNeeded, lastK2Reading,
                        rateVars, pendingSaveState>>
    /\ hist' = [hist EXCEPT !.refreshSet = IF k2Knob # lastK2Reading THEN TRUE ELSE @]
    /\ pc' = "clock"
    /\ UNCHANGED <<call, emitIdx, err, envVars, outVars, newClockToProcess, running,
                   unClockedMode, showNewPatternIndicator,
                   showNewPatternIndicatorClockStep, lastK1Reading, currentK1Reading,
                   cvPatternBanks, CvPattern, outputSlewModes, patternLength,
                   msBetweenClocks, selectedOutput, clockVars, stepVars, playVars>>

\* min(MAX_CLOCK_TIME_MS, ticks_ms() - self.lastClockTime)
NewDiffBetweenClocks == Min(MAX_CLOCK_TIME_MS, now - lastClockTime)

\* inputClockDiffs after lines 383-386
DiffsAfter(newDiff) ==
    IF clockStep > 0
    THEN [inputClockDiffs EXCEPT ![(clockStep % CLOCK_DIFF_BUFFER_LEN) + 1] = newDiff]
    ELSE inputClockDiffs

\* the detection without the MIN_CLOCK_CHANGE_DETECTION_MS threshold
ShouldRecalculateAlways(newDiff) == clockStep >= CLOCK_DIFF_BUFFER_LEN

\* the condition of "Clock rate change detection"
ShouldRecalculate(newDiff) ==
    /\ clockStep >= CLOCK_DIFF_BUFFER_LEN
    /\ Abs(AVG * newDiff - averageMsBetweenClocks) > AVG * MIN_CLOCK_CHANGE_DETECTION_MS

\* the average taken over the window as it was before the new interval
AverageAfterOldWindow(newDiff) ==
    IF ShouldRecalculate(newDiff)
    THEN average(inputClockDiffs)
    ELSE averageMsBetweenClocks

\* averageMsBetweenClocks after the detection
AverageAfter(newDiff) ==
    IF ShouldRecalculate(newDiff)
    THEN average(DiffsAfter(newDiff))
    ELSE averageMsBetweenClocks

\* samplesPerSec after the detection
RatesAfter(newDiff) ==
    IF ShouldRecalculate(newDiff)
    THEN CalculatedRates(outputDivisions, AverageAfter(newDiff))
    ELSE samplesPerSec

\* the history after the clock edge is handled
HistoryAfter ==
    [hist EXCEPT
       !.edgeAt = now,
       !.slotAt = IF clockStep > 0
                  THEN [@ EXCEPT ![(clockStep % CLOCK_DIFF_BUFFER_LEN) + 1] = clockStep]
                  ELSE @,
       !.handled = @ + 1]

\* "if self.newClockToProcess:" up to "self.clockStep += 1"
processClock ==
    /\ pc = "clock" /\ err = ""
    /\ newClockToProcess
    /\ clockStep < MaxClockStep
    /\ LET newDiff == NewDiffBetweenClocks
       IN  /\ lastClockTime' = now
           /\ inputClockDiffs' = DiffsAfter(newDiff)
           /\ averageMsBetweenClocks' = AverageAfter(newDiff)
           /\ IF ShouldRecalculate(newDiff) /\ RateRaises(AverageAfter(newDiff))
              THEN /\ err' = "ZeroDivisionError"
                   /\ hist' = HistoryAfter
                   /\ UNCHANGED <<rateVars, stepVars, showNewPatternIndicator>>
              ELSE /\ samplesPerSec' = RatesAfter(newDiff)
                   /\ msBetweenSamples' = IF ShouldRecalculate(newDiff)
                                          THEN CalculatedDelays(samplesPerSec')
                                          ELSE msBetweenSamples
                   /\ handleClockStep(averageMsBetweenClocks', samplesPerSec')
                   /\ hist' = SegmentsAfter(HistoryAfter)
    /\ clockStep' = IF err' = "" THEN clockStep + 1 ELSE clockStep
    /\ pc' = "clear"
    /\ UNCHANGED <<call, emitIdx, envVars, outVars, newClockToProcess, running,
                   unClockedMode, pendingSaveState, screenRefreshNeeded,
                   showNewPatternIndicatorClockStep, knobVars, configVars, playVars>>

\* no clock to process
skipClock ==
    /\ pc = "clock" /\ err = ""
    /\ ~newClockToProcess
    /\ pc' = "emit"
    /\ emitIdx' = 0
    /\ UNCHANGED <<call, hist, err, envVars, outVars, flagVars, knobVars, configVars, clockVars,
                   rateVars, stepVars, playVars>>

\* self.newClockToProcess = False
clearClock ==
    /\ pc = "clear" /\ err = ""
    /\ newClockToProcess' = FALSE
    /\ pc' = "emit"
    /\ emitIdx' = 0
    /\ UNCHANGED <<call, hist, err, envVars, outVars, running, unClockedMode, pendingSaveState,
                   screenRefreshNeeded, showNewPatternIndicator,
                   showNewPatternIndicatorClockStep, knobVars, configVars, clockVars,
                   rateVars, stepVars, playVars>>

\* ------------------------------------------------------------------------
\* Playback driver: the body of "for idx in range(len(cvs))" in main
\* ------------------------------------------------------------------------
\* the loop moves on to the next output, or leaves the loop
NextOutput ==
    IF emitIdx + 1 < NumOutputs
    THEN /\ emitIdx' = emitIdx + 1 /\ pc' = "emit"
    ELSE /\ emitIdx' = 0 /\ pc' = "save"

\* the time condition alone, without "and self.running"
EmitDueIgnoringRunning(idx) ==
    now - lastSlewVoltageOutputTime[idx] >= msBetweenSamples[idx]

\* ticks_diff(ticks_ms(), lastSlewVoltageOutputTime[idx]) >= msBetweenSamples[idx]
\* and self.running
EmitDue(idx) ==
    /\ now - lastSlewVoltageOutputTime[idx] >= msBetweenSamples[idx]
    /\ running

\* the comparison with <= in place of <
HaveSampleInclusive(idx) == slewBufferPosition[idx] <= slewBufferSampleNum[idx]

\* "Do we have a sample in the buffer?"
HaveSample(idx) == slewBufferPosition[idx] < slewBufferSampleNum[idx]

\* len(arr) of the list a generator object iterates: [] at start-up (-1),
\* the [0] of __init__ (-2), or a sample buffer
GenLen(g) ==
    IF g.src = -1 THEN 0 ELSE IF g.src = -2 THEN 1 ELSE SLEW_BUFFER_SIZE_IN_SAMPLES

\* next(generator) raises StopIteration
GenExhausted(g) == g.pos >= GenLen(g)

\* the value next(generator) yields: arr[s], read when it is asked for
GenValue(g) == IF g.src < 0 THEN 0 ELSE BufAt(slewBuffers[g.src], g.pos)

\* the sample an in-bounds emission outputs
SampleValue(idx) ==
    IF outputSlewModes[idx] = 0
    THEN squareOutputs[idx]
    ELSE GenValue(slewGeneratorObjects[idx])

\* the time condition or the running flag does not hold: nothing is done
emitSkip ==
    /\ pc = "emit" /\ err = ""
    /\ ~EmitDue(emitIdx)
    /\ NextOutput
    /\ UNCHANGED <<call, hist, err, envVars, outVars, flagVars, knobVars, configVars, clockVars,
                   rateVars, stepVars, playVars>>

\* a sample is in the buffer: output it
emitSample ==
    /\ pc = "emit" /\ err = ""
    /\ EmitDue(emitIdx) /\ HaveSample(emitIdx)
    /\ outputSlewModes[emitIdx] = 0 \/ ~GenExhausted(slewGeneratorObjects[emitIdx])
    /\ LET v == SampleValue(emitIdx)
       IN  /\ cvOut' = [cvOut EXCEPT ![emitIdx] = v]
           /\ previousOutputVoltage' = [previousOutputVoltage EXCEPT ![emitIdx] = v]
    /\ slewGeneratorObjects' =
          IF outputSlewModes[emitIdx] = 0
          THEN slewGeneratorObjects
          ELSE [slewGeneratorObjects EXCEPT ![emitIdx].pos = @ + 1]
    /\ bufferUnderrunCounter' = [bufferUnderrunCounter EXCEPT ![emitIdx] = 0]
    /\ slewBufferPosition' = [slewBufferPosition EXCEPT ![emitIdx] = @ + 1]
    /\ lastSlewVoltageOutputTime' = [lastSlewVoltageOutputTime EXCEPT ![emitIdx] = now]
    /\ NextOutput
    /\ UNCHANGED <<call, hist, err, envVars, savedState, screenDrawn, flagVars, knobVars,
                   configVars, clockVars, rateVars, stepPerOutput, nextStepPerOutput,
                   outputVoltageFlipFlops, bufferOverrunSamples, bufferSampleOffsets,
                   slewBufferSampleNum, squareOutputs, slewBuffers, slewArray,
                   lastSaveState>>

\* next() raised StopIteration: "continue"
emitStopIteration ==
    /\ pc = "emit" /\ err = ""
    /\ EmitDue(emitIdx) /\ HaveSample(emitIdx)
    /\ outputSlewModes[emitIdx] # 0 /\ GenExhausted(slewGeneratorObjects[emitIdx])
    /\ NextOutput
    /\ UNCHANGED <<call, hist, err, envVars, outVars, flagVars, knobVars, configVars, clockVars,
                   rateVars, stepVars, playVars>>

\* buffer underrun: output the previous voltage again
emitUnderrun ==
    /\ pc = "emit" /\ err = ""
    /\ EmitDue(emitIdx) /\ ~HaveSample(emitIdx)
    /\ cvOut' = [cvOut EXCEPT ![emitIdx] = previousOutputVoltage[emitIdx]]
    /\ bufferUnderrunCounter' = [bufferUnderrunCounter EXCEPT ![emitIdx] = @ + 1]
    /\ slewBufferPosition' = [slewBufferPosition EXCEPT ![emitIdx] = @ + 1]
    /\ lastSlewVoltageOutputTime' = [lastSlewVoltageOutputTime EXCEPT ![emitIdx] = now]
    /\ NextOutput
    /\ UNCHANGED <<call, hist, err, envVars, savedState, screenDrawn, flagVars, knobVars,
                   configVars, clockVars, rateVars, stepPerOutput, nextStepPerOutput,
                   outputVoltageFlipFlops, bufferOverrunSamples, bufferSampleOffsets,
                   slewBufferSampleNum, squareOutputs, slewBuffers, slewArray,
                   slewGeneratorObjects, previousOutputVoltage, lastSaveState>>

\* ------------------------------------------------------------------------
\* Saving, the internal clock, and the reset on clock silence
\* ------------------------------------------------------------------------
\* the save not waiting for MIN_MS_BETWEEN_SAVES
SaveDueUnthrottled == pendingSaveState

SaveDue ==
    pendingSaveState /\ now - lastSaveState >= MIN_MS_BETWEEN_SAVES

\* self.saveState()
saveState ==
    /\ pc = "save" /\ err = ""
    /\ SaveDue
    /\ savedState' = StateToSave
    /\ lastSaveState' = now
    /\ pc' = "saved"
    /\ UNCHANGED <<call, hist, emitIdx, err, envVars, cvOut, screenDrawn, flagVars, knobVars,
                   configVars, clockVars, rateVars, stepVars,
                   lastSlewVoltageOutputTime, bufferUnderrunCounter,
                   previousOutputVoltage>>

skipSave ==
    /\ pc = "save" /\ err = ""
    /\ ~SaveDue
    /\ pc' = "unclocked"
    /\ UNCHANGED <<call, hist, emitIdx, err, envVars, outVars, flagVars, knobVars, configVars,
                   clockVars, rateVars, stepVars, playVars>>

\* self.pendingSaveState = False
clearPendingSave ==
    /\ pc = "saved" /\ err = ""
    /\ pendingSaveState' = FALSE
    /\ pc' = "unclocked"
    /\ UNCHANGED <<call, hist, emitIdx, err, envVars, outVars, newClockToProcess, running,
                   unClockedMode, screenRefreshNeeded, showNewPatternIndicator,
                   showNewPatternIndicatorClockStep, knobVars, configVars, clockVars,
                   rateVars, stepVars, playVars>>

\* ticks_diff(ticks_ms(), self.lastClockTime) >= self.averageMsBetweenClocks
InternalClockDue ==
    unClockedMode /\ AVG * (now - lastClockTime) >= averageMsBetweenClocks

\* "If we are not being clocked, trigger a clock after the configured clock time"
unclockedStep ==
    /\ pc = "unclocked" /\ err = ""
    /\ InternalClockDue
    /\ clockStep < MaxClockStep
    /\ running' = TRUE
    /\ lastClockTime' = now
    /\ handleClockStep(averageMsBetweenClocks, samplesPerSec)
    /\ clockStep' = IF err' = "" THEN clockStep + 1 ELSE clockStep
    /\ hist' = SegmentsAfter(hist)
    /\ pc' = "reset"
    /\ UNCHANGED <<call, emitIdx, envVars, outVars, newClockToProcess, unClockedMode,
                   pendingSaveState, screenRefreshNeeded,
                   showNewPatternIndicatorClockStep, knobVars, configVars,
                   inputClockDiffs, averageMsBetweenClocks, rateVars, playVars>>

skipUnclocked ==
    /\ pc = "unclocked" /\ err = ""
    /\ ~InternalClockDue
    /\ pc' = "reset"
    /\ UNCHANGED <<call, hist, emitIdx, err, envVars, outVars, flagVars, knobVars, configVars,
                   clockVars, rateVars, stepVars, playVars>>

resetTimeout == MAX_CLOCK_TIME_MS

\* the reset waiting for twice the timeout
ResetDueLate ==
    /\ ~unClockedMode
    /\ clockStep # 0
    /\ now - dinLastTriggered > 2 * resetTimeout

\* "If I have been running, then stopped for longer than resetTimeout"
ResetDue ==
    /\ ~unClockedMode
    /\ clockStep # 0
    /\ now - dinLastTriggered > resetTimeout

reset ==
    /\ pc = "reset" /\ err = ""
    /\ ResetDue
    /\ stepPerOutput' = [idx \in Outputs |-> 0]
    /\ screenRefreshNeeded' = TRUE
    /\ pendingSaveState' = TRUE
    /\ running' = FALSE
    /\ cvOut' = [idx \in Outputs |-> 0]
    /\ bufferUnderrunCounter' = [idx \in Outputs |-> 0]
    /\ bufferOverrunSamples' = [idx \in Outputs |-> 0]
    /\ slewBufferPosition' = [idx \in Outputs |-> 0]
    /\ bufferSampleOffsets' = [idx \in Outputs |-> 0]
    /\ hist' = [hist EXCEPT !.fresh = [idx \in Outputs |-> TRUE],
                            !.stop = [idx \in Outputs |-> -1],
                            !.refreshSet = TRUE]
    /\ pc' = "tick"
    /\ UNCHANGED <<call, emitIdx, err, envVars, savedState, screenDrawn, newClockToProcess,
                   unClockedMode, showNewPatternIndicator,
                   showNewPatternIndicatorClockStep, knobVars, configVars, clockVars,
                   rateVars, nextStepPerOutput, outputVoltageFlipFlops,
                   slewBufferSampleNum, squareOutputs, slewBuffers, slewArray,
                   slewGeneratorObjects, lastSlewVoltageOutputTime,
                   previousOutputVoltage, lastSaveState>>

skipReset ==
    /\ pc = "reset" /\ err = ""
    /\ ~ResetDue
    /\ pc' = "tick"
    /\ UNCHANGED <<call, hist, emitIdx, err, envVars, outVars, flagVars, knobVars, configVars,
                   clockVars, rateVars, stepVars, playVars>>

\* ------------------------------------------------------------------------
\* Specification
\* ------------------------------------------------------------------------
Next ==
    \/ Tick \/ TurnK1 \/ TurnK2
    \/ clockTrigger \/ b1Pressed \/ b2Pressed
    \/ updateScreen \/ getK1Value \/ getOutputDivision
    \/ processClock \/ skipClock \/ clearClock
    \/ emitSkip \/ emitSample \/ emitStopIteration \/ emitUnderrun
    \/ saveState \/ skipSave \/ clearPendingSave
    \/ unclockedStep \/ skipUnclocked
    \/ reset \/ skipReset

Spec == Init /\ [][Next]_vars

\* The program started with an arbitrary accumulated sample offset, before
\* or after the first CLOCK_DIFF_BUFFER_LEN clock steps
DriftOffsets == {-(SLEW_BUFFER_SIZE_IN_SAMPLES + 40), 0, SLEW_BUFFER_SIZE_IN_SAMPLES + 40}

InitDrift == InitWith({0}, {FALSE, TRUE}, {5}, {1}, {0, CLOCK_DIFF_BUFFER_LEN + 1}, DriftOffsets)

SpecDrift == InitDrift /\ [][Next]_vars

\* ------------------------------------------------------------------------
\* Loop iterations and clock edges within one millisecond: ticks_ms() counts
\* whole milliseconds, so ticks_ms() - self.lastClockTime is 0 for an edge
\* handled in the millisecond of the edge before it
\* ------------------------------------------------------------------------
\* an iteration of the main loop begins in the millisecond of the one before
TickNone ==
    /\ pc = "tick" /\ err = ""
    /\ iterations < MaxIterations
    /\ iterations' = iterations + 1
    /\ pc' = "screen"
    /\ UNCHANGED <<call, hist, emitIdx, err, now, dinLastTriggered, k1Knob, k2Knob, edges,
                   events, outVars, flagVars, knobVars, configVars, clockVars, rateVars,
                   stepVars, playVars>>

\* @din.handler clockTrigger for a rising edge at the top of the loop, in the
\* millisecond of the edge before it (or of the start of the program)
clockTriggerBurst ==
    /\ err = "" /\ edges < MaxEdges
    /\ pc = "screen"
    /\ now = dinLastTriggered
    /\ edges' = edges + 1
    /\ running' = TRUE
    /\ newClockToProcess' = IF ~unClockedMode THEN TRUE ELSE newClockToProcess
    /\ hist' = [hist EXCEPT !.flagged = IF ~unClockedMode THEN @ + 1 ELSE @]
    /\ UNCHANGED <<call, pc, emitIdx, err, now, dinLastTriggered, k1Knob, k2Knob,
                   iterations, events, outVars, unClockedMode, pendingSaveState,
                   screenRefreshNeeded, showNewPatternIndicator,
                   showNewPatternIndicatorClockStep, knobVars, configVars,
                   clockVars, rateVars, stepVars, playVars>>

\* what the program does while ticks_ms() stays at its value of __init__: no
\* emission, save, internal clock step or reset is due
NextBurst ==
    \/ TickNone \/ clockTriggerBurst
    \/ updateScreen \/ getK1Value \/ getOutputDivision
    \/ processClock \/ skipClock \/ clearClock
    \/ emitSkip \/ skipSave \/ skipUnclocked \/ skipReset

SpecBurst == InitWith({0}, {FALSE}, {1}, {1}, {0}, {0}) /\ [][NextBurst]_vars

\* ------------------------------------------------------------------------
\* Idle iterations: the main loop runs with nothing to do
\* ------------------------------------------------------------------------
\* an iteration of the main loop changes nothing but the time: the knobs
\* stand where they were read, no clock is pending, the program is not
\* running, no internal clock step and no reset can be due
NothingToDo ==
    /\ currentK1Reading = k1Knob /\ lastK1Reading = k1Knob
    /\ currentK2Reading = k2Knob /\ lastK2Reading = k2Knob
    /\ screenDrawn = screenRefreshNeeded
    /\ ~newClockToProcess /\ ~running
    /\ ~unClockedMode /\ clockStep = 0
    /\ emitIdx = 0

\* the last time at the top of the loop at which the pending save is not due
LastIdleTime == lastSaveState + MIN_MS_BETWEEN_SAVES - TickMs

\* the main loop idles, one iteration every TickMs, for as long as the
\* pending save is not due; no interrupt arrives and no knob is turned
Idle ==
    /\ pc = "tick" /\ err = ""
    /\ iterations < MaxIterations
    /\ NothingToDo
    /\ pendingSaveState
    /\ now < LastIdleTime
    /\ now' = LastIdleTime
    /\ iterations' = iterations + 1
    /\ hist' = [hist EXCEPT !.refreshSet = IF screenRefreshNeeded THEN FALSE ELSE @]
    /\ UNCHANGED <<call, pc, emitIdx, err, dinLastTriggered, k1Knob, k2Knob, edges,
                   events, outVars, flagVars, knobVars, configVars, clockVars, rateVars,
                   stepVars, playVars>>

NextIdle == Next \/ Idle

SpecIdle == InitWith({0}, {FALSE}, {1}, {1}, {0}, {0}) /\ [][NextIdle]_vars

\* ------------------------------------------------------------------------
\* Direct calls of the shape functions and of the pattern generator
\* ------------------------------------------------------------------------
\* calls of the pattern generator in one behaviour
MaxCalls == 2

\* start and stop values, sample counts and earlier buffer contents a shape
\* function is called with
ShapeEnds ==
    {<<0, MAX_CV_VOLTAGE>>, <<MAX_CV_VOLTAGE, 0>>, <<2 * VOLT, 2 * VOLT>>,
     <<12340, 75000>>, <<10, 0>>}
ShapeNums == {0, 1, 2, 5, SLEW_BUFFER_SIZE_IN_SAMPLES}
StaleBuffers == {<<>>, [i \in 1 .. 8 |-> 7 * VOLT]}

\* self.slewShapes[mode](start, stop, num, buffer) with self.patternLength = plen
ShapeCall(mode, plen, start, stop, num, buffer) ==
    LET raised == ShapeRaises(mode, plen)
        written == IF raised THEN <<>> ELSE SlewShape(mode, start, stop, num)
    IN  [fn |-> "shape", mode |-> mode, plen |-> plen, start |-> start,
         stop |-> stop, num |-> num, before |-> buffer,
         raised |-> IF raised THEN "TypeError" ELSE "",
         written |-> Len(written),
         buffer |-> BufWrite(buffer, written),
         exact |-> IF mode = 1 THEN linspaceExact(start, stop, num) ELSE <<>>,
         den |-> IF mode = 1 THEN LinspaceDen(num) ELSE 1]

callShape ==
    /\ call.fn = "none"
    /\ \E mode \in 0 .. (NUM_SLEW_SHAPES - 1), plen \in {1, DEFAULT_PATTERN_LENGTH},
          ends \in ShapeEnds, num \in ShapeNums, buffer \in StaleBuffers :
          call' = ShapeCall(mode, plen, ends[1], ends[2], num, buffer)
    /\ UNCHANGED <<pc, emitIdx, err, envVars, outVars, flagVars, knobVars, configVars,
                   clockVars, rateVars, stepVars, playVars, hist>>

\* the pass appending whatever new is
BankAfterAppended(bank, new, k) == Append(bank, generateRandomPattern(k))

\* one pass of the body of generateNewRandomCVPattern for one bank: append a
\* new pattern (new) or overwrite pattern CvPattern
BankAfter(bank, new, k) ==
    IF new
    THEN Append(bank, generateRandomPattern(k))
    ELSE [bank EXCEPT ![CvPattern + 1] = generateRandomPattern(k)]

\* the pass raises: the allocation fails (alloc), or pattern[self.CvPattern]
\* is assigned in a bank that has no such pattern (IndexError)
BankRaises(bank, new, alloc) == ~alloc \/ (~new /\ Len(bank) <= CvPattern)

\* the number of banks "for pattern in self.cvPatternBanks" has updated, from
\* bank idx on, when the first allocs allocations succeed
RECURSIVE BanksDone(_, _, _, _)
BanksDone(banks, idx, new, allocs) ==
    IF idx = NumOutputs \/ BankRaises(banks[idx], new, idx < allocs)
    THEN idx
    ELSE BanksDone(banks, idx + 1, new, allocs)

\* self.cvPatternBanks after generateNewRandomCVPattern(new, activePatternOnly)
\* with output sel selected, when the first allocs allocations succeed and
\* the random draws are those of candidate k
GeneratedBanks(banks, sel, new, activePatternOnly, allocs, k) ==
    IF activePatternOnly
    THEN IF BankRaises(banks[sel], new, allocs > 0)
         THEN banks
         ELSE [banks EXCEPT ![sel] = BankAfter(banks[sel], new, k)]
    ELSE [idx \in Outputs |->
             IF idx < BanksDone(banks, 0, new, allocs)
             THEN BankAfter(banks[idx], new, (k + idx) % NumPatterns)
             ELSE banks[idx]]

\* what generateNewRandomCVPattern returns
GeneratedOk(banks, sel, new, activePatternOnly, allocs) ==
    IF activePatternOnly
    THEN ~BankRaises(banks[sel], new, allocs > 0)
    ELSE BanksDone(banks, 0, new, allocs) = NumOutputs

\* self.cvPatternBanks = [[], [], [], [], [], []] of initCvPatternBanks
EmptyBanks == [idx \in Outputs |-> <<>>]

\* the first call is that of initCvPatternBanks, generateNewRandomCVPattern(self):
\* new is true and every bank is appended to; the later calls regenerate
\* (new=False), the selected bank or every bank
callGenerate ==
    /\ call.fn \in {"none", "generate"}
    /\ call.fn = "generate" => call.calls < MaxCalls
    /\ \E allocs \in 0 .. NumOutputs, k \in 0 .. (NumPatterns - 1), sel \in Outputs,
          only \in BOOLEAN :
          LET first == call.fn = "none"
              banks == IF first THEN EmptyBanks ELSE call.banks
              active == ~first /\ only
          IN  /\ first => (sel = 0 /\ ~only)
              /\ call' =
                    [fn |-> "generate", new |-> first, activePatternOnly |-> active,
                     sel |-> sel, before |-> banks,
                     banks |-> GeneratedBanks(banks, sel, first, active, allocs, k),
                     ret |-> GeneratedOk(banks, sel, first, active, allocs),
                     inited |-> IF first
                                THEN GeneratedOk(banks, sel, first, active, allocs)
                                ELSE call.inited,
                     calls |-> IF first THEN 1 ELSE call.calls + 1]
    /\ UNCHANGED <<pc, emitIdx, err, envVars, outVars, flagVars, knobVars, configVars,
                   clockVars, rateVars, stepVars, playVars, hist>>

NextCalls == callShape \/ callGenerate

SpecCalls == InitWith({0}, {FALSE}, {1}, {1}, {0}, {0}) /\ [][NextCalls]_vars

\* ------------------------------------------------------------------------
\* Properties
\* ------------------------------------------------------------------------
\* the main loop leaves the emission block of output idx
EmissionStep(idx) ==
    pc = "emit" /\ emitIdx = idx /\ (pc' # "emit" \/ emitIdx' # idx)

\* the condition of the emission block holds for output idx
EmissionDue(idx) ==
    running /\ now - lastSlewVoltageOutputTime[idx] >= msBetweenSamples[idx]

\* the main loop handles a clock edge (lines 376-402)
ClockStepProcessed == pc = "clock" /\ pc' = "clear"

\* the main loop's reset block runs (lines 457-476)
ResetStep == pc = "reset" /\ pc' = "tick"

\* C1: when an emission is due for a channel whose cursor has reached the
\* target sample count, the output gets the voltage of the last in-bounds
\* emission again, that voltage is kept, and the underrun counter goes up by
\* one; an in-bounds emission sets the counter to 0 and records the voltage
\* it wrote, and nothing else changes the recorded voltage
UnderrunHold ==
    [][\A idx \in Outputs :
          /\ (/\ EmissionStep(idx) /\ EmissionDue(idx)
              /\ slewBufferPosition[idx] >= slewBufferSampleNum[idx])
                => /\ cvOut'[idx] = previousOutputVoltage[idx]
                   /\ previousOutputVoltage'[idx] = previousOutputVoltage[idx]
                   /\ bufferUnderrunCounter'[idx] = bufferUnderrunCounter[idx] + 1
          /\ (/\ EmissionStep(idx) /\ EmissionDue(idx)
              /\ slewBufferPosition[idx] < slewBufferSampleNum[idx]
              /\ slewBufferPosition'[idx] = slewBufferPosition[idx] + 1)
                => /\ bufferUnderrunCounter'[idx] = 0
                   /\ previousOutputVoltage'[idx] = cvOut'[idx]
          /\ previousOutputVoltage'[idx] # previousOutputVoltage[idx]
                => /\ EmissionStep(idx)
                   /\ slewBufferPosition[idx] < slewBufferSampleNum[idx]
      ]_vars

\* a channel has held a voltage it emitted in bounds for two underruns
UnderrunHeld ==
    \E idx \in Outputs :
        /\ bufferUnderrunCounter[idx] >= 2
        /\ slewBufferSampleNum[idx] > 0
        /\ slewBufferPosition[idx] > slewBufferSampleNum[idx]
        /\ previousOutputVoltage[idx] # 0
        /\ cvOut[idx] = previousOutputVoltage[idx]

\* every output is off and every step index, counter, cursor and offset is 0
AllCleared ==
    \A idx \in Outputs :
        /\ stepPerOutput[idx] = 0 /\ cvOut[idx] = 0
        /\ bufferUnderrunCounter[idx] = 0 /\ bufferOverrunSamples[idx] = 0
        /\ slewBufferPosition[idx] = 0 /\ bufferSampleOffsets[idx] = 0

\* C2: in clocked mode, when the reset block runs with at least one clock
\* step handled and more than MAX_CLOCK_TIME_MS ms since the last clock edge,
\* every step index is 0, every output is off, the underrun counters, overrun
\* counts, cursors and offsets are 0 and the program is not running; and
\* this stays so for as long as no clock edge arrives
ResetOnSilence ==
    [][/\ (/\ ResetStep /\ ~unClockedMode /\ clockStep # 0
           /\ now - dinLastTriggered > MAX_CLOCK_TIME_MS)
             => (~running' /\ AllCleared')
       /\ (/\ ~running /\ AllCleared /\ ~unClockedMode /\ ~unClockedMode'
           /\ edges' = edges)
             => (~running' /\ AllCleared')
      ]_vars

\* the reset has happened after voltages were emitted
ResetHappened ==
    /\ ~running /\ AllCleared /\ ~unClockedMode /\ clockStep # 0
    /\ now - dinLastTriggered > MAX_CLOCK_TIME_MS
    /\ pc = "tick"
    /\ \E idx \in Outputs : previousOutputVoltage[idx] # 0

\* a clock step handled in clocked mode after the first CLOCK_DIFF_BUFFER_LEN
\* steps computes a new target for output idx, whose cursor is beyond the
\* target of the segment just finished, a target that was itself computed,
\* unclamped and not negative, from the average, division and sample rate
\* that are used now
OverrunStep(idx) ==
    LET nominal == averageMsBetweenClocks' * outputDivisions[idx] * samplesPerSec'[idx]
                      - 1000 * AVG * bufferSampleOffsets[idx]
    IN  /\ ClockStepProcessed
        /\ clockStep % outputDivisions[idx] = 0
        /\ outputVoltageFlipFlops'[idx] # outputVoltageFlipFlops[idx]
        /\ clockStep > CLOCK_DIFF_BUFFER_LEN /\ ~unClockedMode
        /\ slewBufferPosition[idx] > slewBufferSampleNum[idx]
        /\ nominal >= 0
        /\ slewBufferSampleNum[idx] = nominal \div (1000 * AVG)

\* C3 as stated: the following segment's target is the finished segment's
\* target reduced by the overrun
OverrunReducesTarget ==
    [][\A idx \in Outputs :
          OverrunStep(idx)
             => slewBufferSampleNum'[idx] =
                   slewBufferSampleNum[idx]
                      - (slewBufferPosition[idx] - slewBufferSampleNum[idx])
      ]_vars

\* C3: in clocked mode and after the first CLOCK_DIFF_BUFFER_LEN clock
\* steps, the following segment's target is the finished segment's target
\* increased by the overrun, that is the cursor position reached, capped at
\* the buffer size; the overrun is recorded as the channel's overrun count
OverrunRaisesTarget ==
    [][\A idx \in Outputs :
          OverrunStep(idx)
             => /\ slewBufferSampleNum'[idx] =
                      Min(SLEW_BUFFER_SIZE_IN_SAMPLES, slewBufferPosition[idx])
                /\ slewBufferSampleNum'[idx] > slewBufferSampleNum[idx]
                /\ bufferOverrunSamples'[idx] =
                      slewBufferPosition[idx] - slewBufferSampleNum[idx]
      ]_vars

\* a target has just been raised by a recorded overrun
OverrunCorrected ==
    \E idx \in Outputs :
        /\ pc = "clear" /\ ~unClockedMode
        /\ clockStep > CLOCK_DIFF_BUFFER_LEN + 1
        /\ (clockStep - 1) % outputDivisions[idx] = 0
        /\ bufferOverrunSamples[idx] > 0
        /\ slewBufferPosition[idx] = 0
        /\ slewBufferSampleNum[idx] > bufferOverrunSamples[idx]
        /\ slewBufferSampleNum[idx] =
              (averageMsBetweenClocks * outputDivisions[idx] * samplesPerSec[idx]
                  - 1000 * AVG * bufferSampleOffsets[idx]) \div (1000 * AVG)

\* C4: whatever the accumulated sample offset, every channel's target sample
\* count is at most SLEW_BUFFER_SIZE_IN_SAMPLES, no buffer grows beyond that
\* size, no generator reads at an index beyond it, and no shape write raises
\* IndexError
CapacityClamp ==
    \A idx \in Outputs :
        /\ slewBufferSampleNum[idx] <= SLEW_BUFFER_SIZE_IN_SAMPLES
        /\ Len(slewBuffers[idx]) <= SLEW_BUFFER_SIZE_IN_SAMPLES
        /\ slewGeneratorObjects[idx].pos <= SLEW_BUFFER_SIZE_IN_SAMPLES
        /\ err # "IndexError"

\* a clock step has clamped a target to the buffer size and the shape has
\* filled the whole buffer
ClampReached ==
    \E idx \in Outputs :
        /\ pc = "clear" /\ clockStep > CLOCK_DIFF_BUFFER_LEN
        /\ bufferSampleOffsets[idx] < 0
        /\ slewBufferSampleNum[idx] = SLEW_BUFFER_SIZE_IN_SAMPLES
        /\ Len(slewBuffers[idx]) = SLEW_BUFFER_SIZE_IN_SAMPLES

\* min(MAX_SAMPLE_RATE, floor(2 * (MAX_SAMPLE_RATE / division)
\*                              * (MAX_CLOCK_TIME_MS / average)))
RateFor(division) ==
    LET exact == (2 * MAX_SAMPLE_RATE * MAX_CLOCK_TIME_MS * AVG)
                    \div (division * averageMsBetweenClocks)
    IN  IF exact < MAX_SAMPLE_RATE THEN exact ELSE MAX_SAMPLE_RATE

\* C5: in every state, each channel's sample rate is the value the formula
\* gives for its current division and the current average interval and its
\* sample delay is floor(1000 / rate); the rate is at most MAX_SAMPLE_RATE
\* and a channel with a larger division never has a larger rate
RateConsistent ==
    \A idx \in Outputs :
        /\ samplesPerSec[idx] = RateFor(outputDivisions[idx])
        /\ msBetweenSamples[idx] = 1000 \div samplesPerSec[idx]
        /\ samplesPerSec[idx] <= MAX_SAMPLE_RATE
        /\ \A other \in Outputs :
              outputDivisions[idx] <= outputDivisions[other]
                 => samplesPerSec[idx] >= samplesPerSec[other]

\* a sample is about to be emitted at a rate below MAX_SAMPLE_RATE, after a
\* division change by knob 2
RateLowered ==
    \E idx \in Outputs :
        /\ pc = "emit" /\ running
        /\ outputDivisions[idx] # DefaultDivision(idx)
        /\ samplesPerSec[idx] < MAX_SAMPLE_RATE

\* the interval of the clock edge being handled
HandledInterval ==
    IF now - lastClockTime < MAX_CLOCK_TIME_MS
    THEN now - lastClockTime
    ELSE MAX_CLOCK_TIME_MS

\* the edge being handled meets the rate-change condition
RateChanged ==
    /\ clockStep >= CLOCK_DIFF_BUFFER_LEN
    /\ \/ AVG * HandledInterval - averageMsBetweenClocks
             > AVG * MIN_CLOCK_CHANGE_DETECTION_MS
       \/ averageMsBetweenClocks - AVG * HandledInterval
             > AVG * MIN_CLOCK_CHANGE_DETECTION_MS

\* AVG * the mean of a window of CLOCK_DIFF_BUFFER_LEN intervals
MeanOf(window) ==
    (AVG * (window[1] + window[2] + window[3] + window[4] + window[5]))
       \div CLOCK_DIFF_BUFFER_LEN

\* C6: a clock edge handled after at least CLOCK_DIFF_BUFFER_LEN clock steps
\* whose interval differs from the average by more than 100 ms sets the
\* average to the mean of the window, which holds the new interval, and
\* recomputes every channel's sample rate and delay; any other handled edge
\* leaves the average, the rates and the delays unchanged.  After intervals
\* 100,100,100,100,100 and an average of 100, an interval of 400 makes the
\* average 160
RateChangeDetection ==
    [][ClockStepProcessed =>
          IF RateChanged
          THEN /\ inputClockDiffs'[(clockStep % CLOCK_DIFF_BUFFER_LEN) + 1]
                     = HandledInterval
               /\ averageMsBetweenClocks' = MeanOf(inputClockDiffs')
               /\ \A idx \in Outputs :
                     /\ samplesPerSec'[idx] = RateFor(outputDivisions[idx])'
                     /\ msBetweenSamples'[idx] = 1000 \div samplesPerSec'[idx]
               /\ (/\ inputClockDiffs = <<100, 100, 100, 100, 100>>
                   /\ averageMsBetweenClocks = 100 * AVG
                   /\ HandledInterval = 400)
                     => averageMsBetweenClocks' = 160 * AVG
          ELSE /\ averageMsBetweenClocks' = averageMsBetweenClocks
               /\ samplesPerSec' = samplesPerSec
               /\ msBetweenSamples' = msBetweenSamples
      ]_vars

\* five intervals of 100 ms, then one of 400 ms, have been handled
RateChangeSeen ==
    /\ pc = "clear" /\ ~unClockedMode
    /\ clockStep = CLOCK_DIFF_BUFFER_LEN + 2
    /\ inputClockDiffs = <<100, 400, 100, 100, 100>>
    /\ averageMsBetweenClocks = 160 * AVG
    /\ \A idx \in Outputs : samplesPerSec[idx] = RateFor(outputDivisions[idx])

\* C7 as stated: after every clock edge handled in clocked mode the average
\* is the mean of the five entries of the window
AverageIsMean ==
    (pc = "clear" /\ ~unClockedMode)
       => averageMsBetweenClocks = MeanOf(inputClockDiffs)

\* C7: a clock edge handled in clocked mode leaves the average equal to the
\* mean of the five entries of the window when the edge met the rate-change
\* condition, and leaves the average as it was when it did not
AverageIsMeanWhenRateChanged ==
    [][(ClockStepProcessed /\ ~unClockedMode) =>
          /\ RateChanged => averageMsBetweenClocks' = MeanOf(inputClockDiffs')
          /\ ~RateChanged => averageMsBetweenClocks' = averageMsBetweenClocks
      ]_vars

\* the first recalculation has made the average the mean of a window that
\* holds measured intervals only
AverageRecalculated ==
    /\ pc = "clear" /\ ~unClockedMode
    /\ clockStep = CLOCK_DIFF_BUFFER_LEN + 1
    /\ inputClockDiffs = <<100, 100, 100, 100, 100>>
    /\ averageMsBetweenClocks = 100 * AVG

\* C8: every voltage written to an output, and every voltage recorded for an
\* underrun hold, lies in [0, MAX_CV_VOLTAGE], for every slew shape, in LFO
\* mode and in pattern mode
OutputRange ==
    \A idx \in Outputs :
        /\ 0 <= cvOut[idx] /\ cvOut[idx] <= MAX_CV_VOLTAGE
        /\ 0 <= previousOutputVoltage[idx]
        /\ previousOutputVoltage[idx] <= MAX_CV_VOLTAGE

\* a channel with a cosine shape has emitted a sample strictly between two
\* pattern values, which are whole volts
CurveEmitted ==
    \E idx \in Outputs :
        /\ outputSlewModes[idx] \in 2 .. 5
        /\ slewBufferPosition[idx] > 0
        /\ cvOut[idx] = previousOutputVoltage[idx]
        /\ cvOut[idx] % VOLT # 0

\* a clock step is handled, from the external clock or the internal one
HandlerStep ==
    \/ ClockStepProcessed
    \/ /\ pc = "unclocked" /\ pc' = "reset" /\ unClockedMode
       /\ AVG * (now - lastClockTime) >= averageMsBetweenClocks

\* the first voltage and the last voltage of the segment built for idx
EndpointFrom(idx) ==
    IF patternLength = 1
    THEN IF outputVoltageFlipFlops'[idx] THEN MAX_CV_VOLTAGE ELSE 0
    ELSE cvPatternBanks[idx][CvPattern + 1][stepPerOutput[idx] + 1]

EndpointTo(idx) ==
    IF patternLength = 1
    THEN IF outputVoltageFlipFlops'[idx] THEN 0 ELSE MAX_CV_VOLTAGE
    ELSE cvPatternBanks[idx][CvPattern + 1][nextStepPerOutput[idx] + 1]

\* what an aligned clock step does for output idx
AlignedStepEffect(idx) ==
    /\ outputVoltageFlipFlops'[idx] = ~outputVoltageFlipFlops[idx]
    /\ IF outputSlewModes[idx] = 0
       THEN squareOutputs'[idx] = EndpointFrom(idx)
       ELSE \A k \in 1 .. Min(Len(slewBuffers'[idx]), slewBufferSampleNum'[idx]) :
               /\ slewBuffers'[idx][k] >= Min(EndpointFrom(idx), EndpointTo(idx))
               /\ slewBuffers'[idx][k] <= Max(EndpointFrom(idx), EndpointTo(idx))
    /\ slewBufferPosition'[idx] = 0
    /\ stepPerOutput'[idx] = (stepPerOutput[idx] + 1) % patternLength
    /\ nextStepPerOutput'[idx] = (stepPerOutput'[idx] + 1) % patternLength

\* C9 as stated: on a clock step whose clockStep is a multiple of a
\* channel's division the flip-flop is negated, the segment is built between
\* pattern[step] and pattern[nextStep] (between the two extremes when
\* patternLength is 1), the cursor is set to 0, step becomes
\* (step + 1) mod patternLength and nextStep (new step + 1) mod patternLength
AlignedClockStep ==
    [][\A idx \in Outputs :
          (HandlerStep /\ clockStep % outputDivisions[idx] = 0)
             => AlignedStepEffect(idx)
      ]_vars

\* C10: a voltage is written to a channel, and its cursor and emission time
\* move on, only in the emission block when the program is running and at
\* least the channel's sample delay has passed since its previous emission
\* (the reset block switches the outputs off); while the program is not
\* running every output is off
EmissionGating ==
    [][/\ \A idx \in Outputs :
             (\/ cvOut'[idx] # cvOut[idx] /\ ~ResetStep
              \/ lastSlewVoltageOutputTime'[idx] # lastSlewVoltageOutputTime[idx]
              \/ slewBufferPosition'[idx] = slewBufferPosition[idx] + 1)
                => /\ EmissionStep(idx)
                   /\ running
                   /\ now - lastSlewVoltageOutputTime[idx] >= msBetweenSamples[idx]
       /\ ~running' => \A idx \in Outputs : cvOut'[idx] = 0
      ]_vars

\* the program is running and the emission block has left a channel alone
\* whose sample delay has not passed since its last emission
EmissionHeldBack ==
    \E idx \in Outputs :
        /\ pc = "save" /\ running
        /\ lastSlewVoltageOutputTime[idx] > 0
        /\ lastSlewVoltageOutputTime[idx] < now
        /\ now - lastSlewVoltageOutputTime[idx] < msBetweenSamples[idx]

\* a shape function has been called directly
ShapeCalled == call.fn = "shape"

\* the number of entries the shape is to write for a sample count of n
FootprintOf(mode, plen, n) == IF mode = 0 /\ plen # 1 THEN Max(n - 1, 0) ELSE n

\* C11 as stated: whatever the shape and the sample count n, in LFO mode and
\* in pattern mode, a shape call writes exactly the buffer entries 0 .. n-1
\* (n-1 entries for the step shape outside LFO mode) and leaves every other
\* entry as it was; with n = 0 the buffer is left as it was
ShapeFootprint ==
    ShapeCalled =>
        /\ call.raised = ""
        /\ call.written = FootprintOf(call.mode, call.plen, call.num)
        /\ \A k \in call.written .. SLEW_BUFFER_SIZE_IN_SAMPLES :
              BufAt(call.buffer, k) = BufAt(call.before, k)
        /\ call.num = 0 => call.buffer = call.before

\* C12: for n >= 1 linspace writes n values, value[i] = start + i * (stop -
\* start) / n for i = 0 .. n-1: value[0] is start, the values rise strictly
\* when stop > start and fall strictly when stop < start, and the divisor
\* of the division is never 0 (not for n = 0 either); linspace(0, 10, 5) is
\* [0, 2, 4, 6, 8].  The buffer entries, held in units of 1/VOLT volts, are
\* these values to within one unit
LinearShape ==
    (ShapeCalled /\ call.mode = 1) =>
        /\ call.den # 0
        /\ call.num >= 1 =>
              /\ call.raised = ""
              /\ call.den = call.num
              /\ Len(call.exact) = call.num
              /\ \A i \in 0 .. (call.num - 1) :
                    call.exact[i + 1] =
                       call.start * call.num + i * (call.stop - call.start)
              /\ call.exact[1] = call.start * call.den
              /\ \A i \in 1 .. call.num :
                    Abs(call.buffer[i] * call.den - call.exact[i]) < call.den
              /\ \A i \in 1 .. (call.num - 1) :
                    /\ call.stop > call.start => call.exact[i + 1] > call.exact[i]
                    /\ call.stop < call.start => call.exact[i + 1] < call.exact[i]
              /\ (call.start = 0 /\ call.stop = 10 * VOLT /\ call.num = 5) =>
                    call.exact = [i \in 1 .. 5 |-> 2 * (i - 1) * VOLT * call.den]

\* linspace(0, 10, 5) has been called on a buffer that held other values
LinearShapeCalled ==
    /\ ShapeCalled /\ call.mode = 1 /\ call.raised = ""
    /\ call.start = 0 /\ call.stop = 10 * VOLT /\ call.num = 5
    /\ Len(call.before) > 5
    /\ call.buffer[1] = 0 /\ call.buffer[5] = 8 * VOLT
    /\ call.buffer[6] = call.before[6]

\* the pattern generator has been called directly
GenerateCalled == call.fn = "generate"

\* a pattern of MAX_STEP_LENGTH values, each in [0, MAX_CV_VOLTAGE]
ValidPattern(pattern) ==
    /\ Len(pattern) = MAX_STEP_LENGTH
    /\ \A n \in 1 .. MAX_STEP_LENGTH : 0 <= pattern[n] /\ pattern[n] <= MAX_CV_VOLTAGE

\* C13: once initCvPatternBanks has generated the banks, and after any
\* sequence of regenerations of the selected bank or of every bank, failed
\* ones included, every channel's bank holds exactly one pattern, of
\* MAX_STEP_LENGTH values each in [0, MAX_CV_VOLTAGE]; every pattern
\* generateRandomPattern(32, 0, MAX_CV_VOLTAGE) returns is such a pattern
PatternBankInvariant ==
    /\ \A k \in 0 .. (NumPatterns - 1) : ValidPattern(generateRandomPattern(k))
    /\ (GenerateCalled /\ call.inited) =>
          \A idx \in Outputs :
              /\ Len(call.banks[idx]) = 1
              /\ ValidPattern(call.banks[idx][CvPattern + 1])

\* a regeneration has replaced a pattern of the initialised banks
PatternRegenerated ==
    /\ GenerateCalled /\ call.inited /\ call.calls = MaxCalls
    /\ ~call.new /\ call.banks # call.before
    /\ \E idx \in Outputs : call.banks[idx] = call.before[idx]

\* C14 as stated: a call of the pattern generator that fails returns False
\* and leaves every channel's bank exactly as it was before the call,
\* whether it generates for the selected channel or for every channel
FailedKeepsBanks ==
    (GenerateCalled /\ ~call.ret) => call.banks = call.before

\* the clock handler runs
ClockIrq == edges' # edges

\* a button handler runs
ButtonIrq ==
    /\ pc' = pc /\ events' # events /\ edges' = edges
    /\ k1Knob' = k1Knob /\ k2Knob' = k2Knob

\* what no handler touches: the position of the main loop, the outputs and
\* the saved state, the clock tracker, the sample rates, the step engine and
\* the playback state
EngineUnchanged ==
    UNCHANGED <<pc, emitIdx, err, outVars, clockVars, rateVars, stepVars, playVars,
                currentK1Reading, currentK2Reading, CvPattern, outputDivisions,
                patternLength, msBetweenClocks>>

B1ShortEffect ==
    /\ outputSlewModes' =
          [outputSlewModes EXCEPT
              ![selectedOutput] = (outputSlewModes[selectedOutput] + 1) % NUM_SLEW_SHAPES]
    /\ UNCHANGED <<cvPatternBanks, showNewPatternIndicator,
                   showNewPatternIndicatorClockStep, selectedOutput, unClockedMode,
                   running, lastK1Reading, lastK2Reading>>

B1LongEffect ==
    /\ \A idx \in Outputs \ {selectedOutput} : cvPatternBanks'[idx] = cvPatternBanks[idx]
    /\ Len(cvPatternBanks'[selectedOutput]) = Len(cvPatternBanks[selectedOutput])
    /\ showNewPatternIndicator' /\ showNewPatternIndicatorClockStep' = clockStep
    /\ UNCHANGED <<outputSlewModes, selectedOutput, unClockedMode, running,
                   lastK1Reading, lastK2Reading>>

B2ShortEffect ==
    /\ selectedOutput' = (selectedOutput + 1) % NumOutputs
    /\ UNCHANGED <<cvPatternBanks, outputSlewModes, showNewPatternIndicator,
                   showNewPatternIndicatorClockStep, unClockedMode, running,
                   lastK1Reading, lastK2Reading>>

B2LongEffect ==
    /\ unClockedMode' = ~unClockedMode
    /\ running' = (running \/ unClockedMode')
    /\ lastK1Reading' = currentK1Reading /\ lastK2Reading' = currentK2Reading
    /\ UNCHANGED <<cvPatternBanks, outputSlewModes, showNewPatternIndicator,
                   showNewPatternIndicatorClockStep, selectedOutput>>

SavedIntervalIsAverage ==
    pc = "saved" => AVG * savedState.msBetweenClocks = averageMsBetweenClocks

\* C17: the saved configuration and the time of the last save change only
\* in the save block of the main loop (never in a handler), only when the
\* pending-save flag is set and at least MIN_MS_BETWEEN_SAVES ms after the
\* previous save, or after start-up for the first save; a pending save that
\* comes sooner is left pending
SaveThrottled ==
    [][/\ (savedState' # savedState \/ lastSaveState' # lastSaveState) =>
             /\ pc = "save" /\ pc' = "saved"
             /\ pendingSaveState
             /\ now - lastSaveState >= MIN_MS_BETWEEN_SAVES
             /\ lastSaveState' = now
             /\ lastSaveState' - lastSaveState >= MIN_MS_BETWEEN_SAVES
       /\ (ClockIrq \/ ButtonIrq) => UNCHANGED <<savedState, lastSaveState>>
       /\ (pc = "save" /\ pendingSaveState
              /\ now - lastSaveState < MIN_MS_BETWEEN_SAVES) =>
             UNCHANGED <<savedState, lastSaveState, pendingSaveState>>
      ]_vars

\* a save was made, the flag was set again, and the save block has left the
\* new save waiting because MIN_MS_BETWEEN_SAVES ms have not passed
SaveHeldBack ==
    /\ pc = "unclocked" /\ pendingSaveState
    /\ savedState # <<>>
    /\ lastSaveState >= MIN_MS_BETWEEN_SAVES
    /\ now > lastSaveState
    /\ now - lastSaveState < MIN_MS_BETWEEN_SAVES

\* the window slot a clock edge handled at the current clockStep is keyed to
SlotOfStep == (clockStep % CLOCK_DIFF_BUFFER_LEN) + 1

\* the window is as it was
WindowUnchanged == inputClockDiffs' = inputClockDiffs

\* C18 as stated: a clock edge handled at clockStep c > 0 writes the time
\* since the previous handled edge, capped at MAX_CLOCK_TIME_MS, into slot
\* c mod CLOCK_DIFF_BUFFER_LEN, the slot that was written longest ago, and
\* leaves the other slots as they were; the first edge handled, at c = 0,
\* writes no slot; and this whatever the interleaving of clocked and
\* unclocked operation
WindowUpdate ==
    [][ClockStepProcessed =>
          /\ clockStep > 0 =>
                /\ hist.edgeAt >= 0
                /\ inputClockDiffs'[SlotOfStep] = Min(MAX_CLOCK_TIME_MS, now - hist.edgeAt)
                /\ \A n \in 1 .. CLOCK_DIFF_BUFFER_LEN :
                      /\ n # SlotOfStep => inputClockDiffs'[n] = inputClockDiffs[n]
                      /\ hist.slotAt[SlotOfStep] <= hist.slotAt[n]
          /\ clockStep = 0 => WindowUnchanged
          /\ hist.edgeAt < 0 => WindowUnchanged
      ]_vars

\* the emission block of output idx outputs a sample of a slew shape
SampleEmitted(idx) ==
    /\ EmissionStep(idx) /\ EmissionDue(idx)
    /\ slewBufferPosition[idx] < slewBufferSampleNum[idx]
    /\ outputSlewModes[idx] # 0
    /\ slewBufferPosition'[idx] = slewBufferPosition[idx] + 1

\* C19 as stated: a sample emitted in bounds for a channel whose shape is
\* not the square one is the entry of the channel's own buffer at the
\* channel's cursor, read through a generator built over that buffer, also
\* when button 1 changed the channel's slew mode in the middle of a segment
OwnBufferEmission ==
    [][\A idx \in Outputs :
          SampleEmitted(idx) =>
             /\ slewGeneratorObjects[idx].src = idx
             /\ cvOut'[idx] = BufAt(slewBuffers[idx], slewBufferPosition[idx])
      ]_vars

\* the per-channel state of the step engine is as it was for output idx
ChannelUnchanged(idx) ==
    /\ outputVoltageFlipFlops'[idx] = outputVoltageFlipFlops[idx]
    /\ stepPerOutput'[idx] = stepPerOutput[idx]
    /\ nextStepPerOutput'[idx] = nextStepPerOutput[idx]
    /\ slewBufferPosition'[idx] = slewBufferPosition[idx]
    /\ slewBufferSampleNum'[idx] = slewBufferSampleNum[idx]
    /\ bufferSampleOffsets'[idx] = bufferSampleOffsets[idx]
    /\ bufferOverrunSamples'[idx] = bufferOverrunSamples[idx]
    /\ squareOutputs'[idx] = squareOutputs[idx]
    /\ slewBuffers'[idx] = slewBuffers[idx]
    /\ slewGeneratorObjects'[idx] = slewGeneratorObjects[idx]

\* C20: a clock step, from the external clock or the internal one, whose
\* clockStep is not a multiple of a channel's division leaves the channel's
\* flip-flop, step and next-step indices, cursor, target sample count,
\* sample offset, overrun count, square value, buffer contents and generator
\* as they were, and the channel's buffer is rewritten only by a clock step
\* whose clockStep is a multiple of its division
UnalignedFrame ==
    [][\A idx \in Outputs :
          /\ (HandlerStep /\ clockStep % outputDivisions[idx] # 0)
                => ChannelUnchanged(idx)
          /\ slewBuffers'[idx] # slewBuffers[idx]
                => (HandlerStep /\ clockStep % outputDivisions[idx] = 0)
      ]_vars

\* a clock step has just stepped output 0 and left output 1, whose division
\* it is not a multiple of, in the middle of its segment
UnalignedStepTaken ==
    /\ pc = "clear" /\ clockStep > 1
    /\ (clockStep - 1) % outputDivisions[0] = 0
    /\ (clockStep - 1) % outputDivisions[1] # 0
    /\ slewBufferPosition[0] = 0 /\ slewBufferPosition[1] > 0
    /\ stepPerOutput[0] # stepPerOutput[1]

\* C21 as stated: in clocked mode every rising clock edge leads to exactly
\* one handled clock step: whenever no clock is pending, the main loop has
\* handled as many edges as set the pending flag, whatever the interleaving
\* of the clock interrupt with the main loop
NoEdgeLost ==
    (err = "" /\ ~newClockToProcess) => hist.handled = hist.flagged

\* C22 as stated: while the program is in unclocked mode no external clock
\* edge is handled by the main loop, so none causes a clock step or a write
\* to the interval window, also when the edge came just before button 2
\* changed the mode; clockStep goes up only in the internal clock's block,
\* once averageMsBetweenClocks ms have passed since the previous step
UnclockedIgnoresEdges ==
    [][unClockedMode =>
          /\ ~ClockStepProcessed
          /\ inputClockDiffs' = inputClockDiffs
          /\ clockStep' # clockStep
                => /\ pc = "unclocked"
                   /\ AVG * (now - lastClockTime) >= averageMsBetweenClocks
      ]_vars

\* C23: in every state each channel's division is in 1 ..
\* MAX_OUTPUT_DENOMINATOR, patternLength is in 1 .. MAX_STEP_LENGTH, each slew
\* mode is in 0 .. 7, the selected output is one of the outputs, and every
\* step and next-step index is below MAX_STEP_LENGTH and within the pattern
\* it is used to read, so that no pattern, shape-table or channel access is
\* out of bounds
RangeInvariant ==
    /\ patternLength \in 1 .. MAX_STEP_LENGTH
    /\ selectedOutput \in Outputs
    /\ \A idx \in Outputs :
          /\ outputDivisions[idx] \in 1 .. MAX_OUTPUT_DENOMINATOR
          /\ outputSlewModes[idx] \in 0 .. (NUM_SLEW_SHAPES - 1)
          /\ stepPerOutput[idx] \in 0 .. (MAX_STEP_LENGTH - 1)
          /\ nextStepPerOutput[idx] \in 0 .. (MAX_STEP_LENGTH - 1)
          /\ CvPattern + 1 \in DOMAIN cvPatternBanks[idx]
          /\ stepPerOutput[idx] + 1 \in DOMAIN cvPatternBanks[idx][CvPattern + 1]
          /\ nextStepPerOutput[idx] + 1 \in DOMAIN cvPatternBanks[idx][CvPattern + 1]

\* knob 2 at its highest position has set the selected output's division to
\* MAX_OUTPUT_DENOMINATOR and clock steps have been handled with it
RangeEdgeReached ==
    /\ outputDivisions[selectedOutput] = MAX_OUTPUT_DENOMINATOR
    /\ currentK2Reading = MAX_OUTPUT_DENOMINATOR
    /\ clockStep > 1
    /\ stepPerOutput[selectedOutput] > 0

\* C25 as stated: on every clock step that builds a segment for a channel,
\* the step index the segment is built from is below patternLength and the
\* next-step index it is built to is (step + 1) mod patternLength, also for
\* the first segment after a reset and after knob 1 changed patternLength
StepIndexInvariant ==
    [][\A idx \in Outputs :
          (HandlerStep /\ clockStep % outputDivisions[idx] = 0)
             => /\ stepPerOutput[idx] < patternLength
                /\ nextStepPerOutput[idx] = (stepPerOutput[idx] + 1) % patternLength
      ]_vars

\* the case of the reset alone: the first segment built for a channel after
\* the reset block ran is built from step 0 to step 1 mod patternLength
StepIndexAfterReset ==
    [][\A idx \in Outputs :
          (HandlerStep /\ clockStep % outputDivisions[idx] = 0 /\ hist.fresh[idx])
             => /\ stepPerOutput[idx] = 0
                /\ nextStepPerOutput[idx] = 1 % patternLength
      ]_vars

\* floor((averageInterval / 1000) * division * sampleRate), capped at the
\* buffer size, for the average and the rate a clock step leaves
NominalTarget(idx) ==
    LET nominal == (averageMsBetweenClocks' * outputDivisions[idx] * samplesPerSec'[idx])
                      \div (1000 * AVG)
    IN  IF nominal < SLEW_BUFFER_SIZE_IN_SAMPLES
        THEN nominal
        ELSE SLEW_BUFFER_SIZE_IN_SAMPLES

\* C26 as stated: the first segment built for a channel after the reset
\* block ran carries no correction from before the stop: its target sample
\* count is min(capacity, floor((average / 1000) * division * rate)) and the
\* sample offset applied to it is 0
CleanRecovery ==
    [][\A idx \in Outputs :
          (/\ HandlerStep /\ err' = ""
           /\ clockStep % outputDivisions[idx] = 0
           /\ hist.fresh[idx])
             => /\ bufferSampleOffsets'[idx] = 0
                /\ slewBufferSampleNum'[idx] = NominalTarget(idx)
      ]_vars

\* C28 as stated: in every state every channel's target sample count is at
\* least 0, so that every shape is called with a sample count of 0 or more
TargetNotNegative ==
    \A idx \in Outputs : 0 <= slewBufferSampleNum[idx]

\* a clock step handled in clocked mode after more than
\* CLOCK_DIFF_BUFFER_LEN steps builds a segment for output idx, no reset
\* having run since the segment before it, whose target is the one the
\* average, division and sample rate used now give with the offset applied
\* to it, and is below the buffer size
SteadyStep(idx) ==
    /\ ClockStepProcessed /\ err' = ""
    /\ clockStep % outputDivisions[idx] = 0
    /\ clockStep > CLOCK_DIFF_BUFFER_LEN /\ ~unClockedMode
    /\ ~hist.fresh[idx]
    /\ averageMsBetweenClocks' = averageMsBetweenClocks
    /\ samplesPerSec'[idx] = samplesPerSec[idx]
    /\ slewBufferSampleNum[idx] =
          TargetSampleNumUnclamped(averageMsBetweenClocks, outputDivisions[idx],
                                   samplesPerSec[idx], bufferSampleOffsets[idx])
    /\ slewBufferSampleNum[idx] < SLEW_BUFFER_SIZE_IN_SAMPLES

\* C27 as stated: in clocked mode after more than CLOCK_DIFF_BUFFER_LEN clock
\* steps, when the average, the division and the sample rate are those of
\* the channel's segment before, no reset ran and no target is clamped, the
\* new target is the cursor position reached in the segment before; in
\* unclocked mode and up to clock step CLOCK_DIFF_BUFFER_LEN the sample
\* offset is 0 after every aligned step
FeedbackFixedPoint ==
    [][\A idx \in Outputs :
          /\ (SteadyStep(idx) /\ slewBufferSampleNum'[idx] < SLEW_BUFFER_SIZE_IN_SAMPLES)
                => slewBufferSampleNum'[idx] = slewBufferPosition[idx]
          /\ (/\ HandlerStep /\ err' = ""
              /\ clockStep % outputDivisions[idx] = 0
              /\ (unClockedMode \/ clockStep <= CLOCK_DIFF_BUFFER_LEN))
                => bufferSampleOffsets'[idx] = 0
      ]_vars

\* C29 as stated: when a clock step builds a segment for a channel with a
\* shape other than the square one, and the segment before it was built
\* with such a shape too, with no reset and no change of patternLength or of
\* the channel's pattern in between, the start value passed to the shape is
\* the stop value passed for the segment before, in LFO mode as in pattern
\* mode
SegmentContinuity ==
    [][\A idx \in Outputs :
          (/\ HandlerStep /\ err' = ""
           /\ clockStep % outputDivisions[idx] = 0
           /\ outputSlewModes[idx] # 0
           /\ hist.stop[idx] >= 0)
             => SegmentStart(idx, StepState, ~outputVoltageFlipFlops[idx]) = hist.stop[idx]
      ]_vars

\* the same in LFO mode alone
SegmentContinuityLfo ==
    [][\A idx \in Outputs :
          (/\ HandlerStep /\ err' = ""
           /\ clockStep % outputDivisions[idx] = 0
           /\ outputSlewModes[idx] # 0 /\ patternLength = 1
           /\ hist.stop[idx] >= 0)
             => SegmentStart(idx, StepState, ~outputVoltageFlipFlops[idx]) = hist.stop[idx]
      ]_vars

\* C24 as stated: in every state the average clock interval is greater than
\* 0, every channel's sample rate is at least 1 and every division is at
\* least 1, so that no division by the average or by a sample rate and no
\* modulus by a division raises ZeroDivisionError, whatever the clock
\* intervals in 0 .. MAX_CLOCK_TIME_MS and the knob positions
NoZeroDenominator ==
    /\ averageMsBetweenClocks > 0
    /\ err # "ZeroDivisionError"
    /\ \A idx \in Outputs :
          /\ samplesPerSec[idx] >= 1
          /\ outputDivisions[idx] >= 1

\* C30 as stated: no pending save is lost: whenever the pending-save flag is
\* clear, the snapshot save_state_json last wrote holds every change made
\* so far, also a change made by an interrupt handler between the main
\* loop's call of saveState and its clearing of the flag
NoSaveLost ==
    (err = "" /\ ~pendingSaveState) => savedState = StateToSave

\* updateScreen runs and redraws the display
ScreenRedrawn == pc = "screen" /\ pc' = "k1" /\ screenDrawn'

\* C31 as stated: updateScreen redraws the display only when the
\* screen-refresh flag was set (by __init__, a button press, a knob change or
\* the reset) since the redraw before: once it has redrawn, it does not
\* redraw in a later iteration of the main loop until the flag is set again
RedrawOnlyOnChange ==
    [][ScreenRedrawn => hist.refreshSet]_vars

=============================================================================
